---- MODULE Spec2Model ----
(***************************************************************************)
(* Model of the phemex-trade-mcp scaling cache (ProductInfoCache), its     *)
(* response conversion, and the order entry points that use it.            *)
(*                                                                         *)
(* Conventions                                                             *)
(*  - A JavaScript string is a sequence of one-character strings, so that  *)
(*    endsWith / slice / startsWith / concatenation are computed as the    *)
(*    code computes them.                                                  *)
(*  - A JavaScript number is a record [nan, m, e] standing for the value   *)
(*    m / 10^e (e >= 0, m carries the sign, normalised so that m has no    *)
(*    trailing zero unless e = 0), or NaN.  Every number the model handles *)
(*    has fewer than 10 significant digits and magnitude below 2^31; in    *)
(*    that range an IEEE-754 double multiplication by a power of ten       *)
(*    followed by Math.round, a division by a power of ten, and the        *)
(*    shortest round-trip Number::toString all agree with the exact        *)
(*    decimal arithmetic used here.                                        *)
(***************************************************************************)
EXTENDS Integers, Sequences, FiniteSets, TLC

\* ------------------------------------------------------------------------
\* Bounds
\* ------------------------------------------------------------------------
\* largest magnitude of a mantissa the arithmetic is applied to
MaxMagnitude == 1000000000

\* ------------------------------------------------------------------------
\* Characters and digits
\* ------------------------------------------------------------------------
DigitChars == <<"0", "1", "2", "3", "4", "5", "6", "7", "8", "9">>

IsDigit(c) == \E i \in 1..10 : DigitChars[i] = c

DigitVal(c) == (CHOOSE i \in 1..10 : DigitChars[i] = c) - 1

RECURSIVE Pow10(_)
Pow10(k) == IF k = 0 THEN 1 ELSE 10 * Pow10(k - 1)

Abs(x) == IF x < 0 THEN -x ELSE x

\* decimal digits of a natural number, most significant first
RECURSIVE NatDigits(_)
NatDigits(n) ==
  IF n < 10 THEN <<DigitChars[n + 1]>>
  ELSE Append(NatDigits(n \div 10), DigitChars[(n % 10) + 1])

\* value of a run of digit characters
RECURSIVE DigitsVal(_)
DigitsVal(s) ==
  IF s = <<>> THEN 0
  ELSE 10 * DigitsVal(SubSeq(s, 1, Len(s) - 1)) + DigitVal(s[Len(s)])

RECURSIVE Zeros(_)
Zeros(k) == IF k <= 0 THEN <<>> ELSE <<"0">> \o Zeros(k - 1)

\* ------------------------------------------------------------------------
\* JavaScript strings
\* ------------------------------------------------------------------------
StartsWith(s, p) == Len(s) >= Len(p) /\ SubSeq(s, 1, Len(p)) = p

EndsWith(s, p) == Len(s) >= Len(p) /\ SubSeq(s, Len(s) - Len(p) + 1, Len(s)) = p

\* s.slice(0, -k)
SliceOffEnd(s, k) == SubSeq(s, 1, Len(s) - k)

\* s.slice(k)
SliceFrom(s, k) == SubSeq(s, k + 1, Len(s))

\* ------------------------------------------------------------------------
\* JavaScript numbers
\* ------------------------------------------------------------------------
NaN == [nan |-> TRUE, m |-> 0, e |-> 0]

RECURSIVE Norm(_, _)
Norm(m, e) ==
  IF m = 0 THEN [nan |-> FALSE, m |-> 0, e |-> 0]
  ELSE IF e > 0 /\ m % 10 = 0 THEN Norm(m \div 10, e - 1)
  ELSE [nan |-> FALSE, m |-> m, e |-> e]

Int2Num(n) == Norm(n, 0)

IsInteger(a) == ~a.nan /\ a.e = 0

\* number of trailing zeros of a positive power of ten
RECURSIVE Log10(_)
Log10(n) == IF n < 10 THEN 0 ELSE 1 + Log10(n \div 10)

\* a * b, for a factor b that is NaN or a positive power of ten (the only
\* values init stores as scale factors)
NumMul(a, b) ==
  IF a.nan \/ b.nan THEN NaN
  ELSE LET k == Log10(b.m)
       IN IF a.e >= k THEN Norm(a.m, a.e - k) ELSE Norm(a.m * Pow10(k - a.e), 0)

\* a / b, for a divisor that is NaN or a positive power of ten (the only
\* values init stores as scale factors)
NumDiv(a, b) ==
  IF a.nan \/ b.nan THEN NaN ELSE Norm(a.m, a.e + Log10(b.m))

\* Math.round: floor(x + 0.5), ties go towards +Infinity
MathRound(a) ==
  IF a.nan THEN NaN
  ELSE Int2Num((2 * a.m + Pow10(a.e)) \div (2 * Pow10(a.e)))

\* Math.pow(10, x) for x undefined (absent field) or a small natural number
Absent == -1

MathPow10(x) == IF x = Absent THEN NaN ELSE Int2Num(Pow10(x))

\* ------------------------------------------------------------------------
\* parseFloat: optional sign, digits, optional fraction, optional exponent;
\* anything after the longest numeric prefix is ignored; NaN if there is no
\* digit at all.
\* ------------------------------------------------------------------------
RECURSIVE DigitRun(_, _)
\* length of the run of digits of s starting at position i
DigitRun(s, i) ==
  IF i <= Len(s) /\ IsDigit(s[i]) THEN 1 + DigitRun(s, i + 1) ELSE 0

\* number of sign characters at the start of s
SignLength(s) == IF Len(s) >= 1 /\ s[1] \in {"+", "-"} THEN 1 ELSE 0

HasPoint(s, i) == i <= Len(s) /\ s[i] = "."

\* number of fraction digits when the point is expected at position i
FractionLength(s, i) == IF HasPoint(s, i) THEN DigitRun(s, i + 1) ELSE 0

\* value of the run of digits of s starting at position i (0 if there is none)
DigitsValAt(s, i) == DigitsVal(SubSeq(s, i, i + DigitRun(s, i) - 1))

\* the exponent part expected at position i: e or E, an optional sign and at
\* least one digit; 0 when there is no such part
ExponentAt(s, i) ==
  IF ~(i <= Len(s) /\ s[i] \in {"e", "E"}) THEN 0
  ELSE IF i + 1 <= Len(s) /\ s[i + 1] = "-" THEN -DigitsValAt(s, i + 2)
  ELSE IF i + 1 <= Len(s) /\ s[i + 1] = "+" THEN DigitsValAt(s, i + 2)
  ELSE DigitsValAt(s, i + 1)

\* m / 10^e for any integer e
Scaled10(m, e) == IF e >= 0 THEN Norm(m, e) ELSE Norm(m * Pow10(-e), 0)

\* the value, given where the digits start (i0), the number of integer
\* digits, the number of fraction digits and where the exponent part starts
ParseParts(s, i0, nInt, nFrac, iExp) ==
  IF nInt + nFrac = 0 THEN NaN
  ELSE Scaled10((IF s[1] = "-" THEN -1 ELSE 1)
                  * DigitsVal(SubSeq(s, i0, i0 + nInt - 1)
                              \o SubSeq(s, i0 + nInt + 1, i0 + nInt + nFrac)),
                nFrac - ExponentAt(s, iExp))

ParseMantissa(s, i0, nInt, nFrac) ==
  ParseParts(s, i0, nInt, nFrac,
             IF HasPoint(s, i0 + nInt) THEN i0 + nInt + 1 + nFrac ELSE i0 + nInt)

ParseDigits(s, i0, nInt) == ParseMantissa(s, i0, nInt, FractionLength(s, i0 + nInt))

ParseFloat(s) == ParseDigits(s, SignLength(s) + 1, DigitRun(s, SignLength(s) + 1))

\* ------------------------------------------------------------------------
\* Number::toString(10) (ECMA-262 6.1.6.1.20): with k significant digits
\* and value = digits * 10^(n-k), plain notation is used for -6 < n <= 21 and
\* exponential notation otherwise.
\* ------------------------------------------------------------------------
RECURSIVE StripTrailingZeros(_)
StripTrailingZeros(n) == IF n # 0 /\ n % 10 = 0 THEN StripTrailingZeros(n \div 10) ELSE n

NumToString(a) ==
  IF a.nan THEN <<"N", "a", "N">>
  ELSE IF a.m = 0 THEN <<"0">>
  ELSE
    LET sign == IF a.m < 0 THEN <<"-">> ELSE <<>>
        all  == NatDigits(Abs(a.m))
        ds   == NatDigits(StripTrailingZeros(Abs(a.m)))
        k    == Len(ds)
        n    == Len(all) - a.e
        body ==
          IF k <= n /\ n <= 21 THEN ds \o Zeros(n - k)
          ELSE IF 0 < n /\ n <= 21 THEN SubSeq(ds, 1, n) \o <<".">> \o SubSeq(ds, n + 1, k)
          ELSE IF -6 < n /\ n <= 0 THEN <<"0", ".">> \o Zeros(-n) \o ds
          ELSE
            LET ex   == n - 1
                exs  == (IF ex < 0 THEN <<"-">> ELSE <<"+">>) \o NatDigits(Abs(ex))
            IN IF k = 1 THEN ds \o <<"e">> \o exs
               ELSE <<ds[1], ".">> \o SubSeq(ds, 2, k) \o <<"e">> \o exs
    IN sign \o body


\* ------------------------------------------------------------------------
\* State
\* ------------------------------------------------------------------------
VARIABLES
  phase,           \* "constructed" until `await productCache.init()` returns, then "ready"
  payload,         \* what the /public/products fetch produced (input of init)
  cache,           \* ProductInfoCache.cache : Map<string, ProductInfo>
  loaded,          \* ProductInfoCache.loaded
  currencyScales,  \* ProductInfoCache.currencyScales : Map<string, number>
  call,            \* the last operation invoked and its arguments
  ret,             \* what that operation returned or threw
  env,             \* process.env.PHEMEX_MAX_ORDER_VALUE (undefined when not set)
  maxOrderValue,   \* PhemexClient.maxOrderValue
  requests,        \* transport requests issued by the tool handlers, in order
  responses,       \* the exchange's answers to those requests, in the same order
  routed           \* the last ContractRouter call, its arguments and what it gave back

vars ==
  <<phase, payload, cache, loaded, currencyScales, call, ret, env, maxOrderValue, requests,
    responses, routed>>

configVars == <<env, maxOrderValue>>

cacheVars == <<phase, payload, cache, loaded, currencyScales>>

\* Map helpers: a Map is a function whose domain is the set of keys present
EmptyMap == [x \in {} |-> 0]

MapSet(f, k, v) == [x \in (DOMAIN f) \cup {k} |-> IF x = k THEN v ELSE f[x]]

MapHas(f, k) == k \in DOMAIN f

\* ------------------------------------------------------------------------
\* Names used on the wire
\* ------------------------------------------------------------------------
BTCUSD   == <<"B", "T", "C", "U", "S", "D">>
BTCUSDT  == <<"B", "T", "C", "U", "S", "D", "T">>
sBTCUSDT == <<"s", "B", "T", "C", "U", "S", "D", "T">>
ETHUSD   == <<"E", "T", "H", "U", "S", "D">>
UNKNOWN  == <<"U", "N", "K", "N", "O", "W", "N">>
BTC      == <<"B", "T", "C">>
ETH      == <<"E", "T", "H">>
USDT     == <<"U", "S", "D", "T">>

\* ------------------------------------------------------------------------
\* The product metadata document (RawCurrency, RawProduct, RawProductV2).
\* A list is either absent (undefined) or an array; an array element may be
\* null (bad), on which any property access throws a TypeError.
\* ------------------------------------------------------------------------
RawCurrency(currency, valueScale) ==
  [bad |-> FALSE, currency |-> currency, valueScale |-> valueScale]

BadCurrency == [bad |-> TRUE, currency |-> <<>>, valueScale |-> Absent]

RawProduct(symbol, type, status, settleCurrency, priceScale, ratioScale, contractSize) ==
  [bad |-> FALSE, symbol |-> symbol, type |-> type, status |-> status,
   settleCurrency |-> settleCurrency, priceScale |-> priceScale,
   ratioScale |-> ratioScale, contractSize |-> contractSize]

BadProduct ==
  [bad |-> TRUE, symbol |-> <<>>, type |-> "", status |-> "",
   settleCurrency |-> <<>>, priceScale |-> Absent, ratioScale |-> Absent,
   contractSize |-> Absent]

NoList == [present |-> FALSE, items |-> <<>>]

List(items) == [present |-> TRUE, items |-> items]

\* data.data.xs ?? []
OrEmpty(l) == IF l.present THEN l.items ELSE <<>>

\* ------------------------------------------------------------------------
\* ProductInfoCache.init
\* ------------------------------------------------------------------------
ProductInfo(symbol, contractType, priceScale, ratioScale, valueScale, contractSize) ==
  [symbol |-> symbol, contractType |-> contractType, priceScale |-> priceScale,
   ratioScale |-> ratioScale, valueScale |-> valueScale, contractSize |-> contractSize]

\* the state of the three fields while init runs; threw = an exception is
\* on its way to the catch clause
LoadState(cs, c, threw) == [currencyScales |-> cs, cache |-> c, threw |-> threw]

RECURSIVE LoadCurrencies(_, _, _)
LoadCurrencies(items, i, st) ==
  IF i > Len(items) THEN st
  ELSE IF items[i].bad THEN LoadState(st.currencyScales, st.cache, TRUE)
  ELSE LoadCurrencies(items, i + 1,
         LoadState(MapSet(st.currencyScales, items[i].currency,
                          MathPow10(items[i].valueScale)),
                   st.cache, FALSE))

\* this.currencyScales.get(p.settleCurrency) ?? Math.pow(10, 8)
SettleValueScale(cs, settleCurrency) ==
  IF MapHas(cs, settleCurrency) THEN cs[settleCurrency] ELSE MathPow10(8)

\* status filter of the products loop
ProductIsListed_Any(p) == TRUE

ProductIsListed(p) == p.status = "Listed"

\* status filter of the perpProductsV2 loop
ProductV2IsListed(p) == p.status = "Listed"

RECURSIVE LoadProducts(_, _, _)
LoadProducts(items, i, st) ==
  IF i > Len(items) THEN st
  ELSE IF items[i].bad THEN LoadState(st.currencyScales, st.cache, TRUE)
  ELSE
    LET p == items[i]
        valueScale == SettleValueScale(st.currencyScales, p.settleCurrency)
        next ==
          IF ~ProductIsListed(p) THEN st
          ELSE IF p.type = "Perpetual" THEN
            LoadState(st.currencyScales,
                      MapSet(st.cache, p.symbol,
                             ProductInfo(p.symbol, "inverse", MathPow10(p.priceScale),
                                         MathPow10(p.ratioScale), valueScale,
                                         IF p.contractSize = Absent THEN Int2Num(1)
                                         ELSE Int2Num(p.contractSize))),
                      FALSE)
          ELSE IF p.type = "Spot" THEN
            LoadState(st.currencyScales,
                      MapSet(st.cache, p.symbol,
                             ProductInfo(p.symbol, "spot", MathPow10(p.priceScale),
                                         MathPow10(p.ratioScale), valueScale, Int2Num(1))),
                      FALSE)
          ELSE st
    IN LoadProducts(items, i + 1, next)

\* p.priceScale ? Math.pow(10, p.priceScale) : 1   (undefined and 0 are falsy)
LinearScale(x) == IF x = Absent \/ x = 0 THEN Int2Num(1) ELSE MathPow10(x)

RECURSIVE LoadProductsV2(_, _, _)
LoadProductsV2(items, i, st) ==
  IF i > Len(items) THEN st
  ELSE IF items[i].bad THEN LoadState(st.currencyScales, st.cache, TRUE)
  ELSE
    LET p == items[i]
        next ==
          IF ProductV2IsListed(p) THEN
            LoadState(st.currencyScales,
                      MapSet(st.cache, p.symbol,
                             ProductInfo(p.symbol, "linear", LinearScale(p.priceScale),
                                         LinearScale(p.ratioScale), Int2Num(1), Int2Num(1))),
                      FALSE)
          ELSE st
    IN LoadProductsV2(items, i + 1, next)

\* the body of the try block after `if (data.code !== 0) return`
LoadAll(doc) ==
  LET s0 == LoadState(EmptyMap, EmptyMap, FALSE)
      s1 == LoadCurrencies(OrEmpty(doc.currencies), 1, s0)
      s2 == IF s1.threw THEN s1 ELSE LoadProducts(OrEmpty(doc.products), 1, s1)
      s3 == IF s2.threw THEN s2 ELSE LoadProductsV2(OrEmpty(doc.perpProductsV2), 1, s2)
  IN s3

\* payload kinds: "reject" (fetch or res.json() rejects), "code" (code !== 0),
\* "nodata" (code 0 but data.data missing: the first property access throws),
\* "ok" (code 0 with a data object)
Payload(kind, currencies, products, perpProductsV2) ==
  [kind |-> kind, currencies |-> currencies, products |-> products,
   perpProductsV2 |-> perpProductsV2]

NoPayload == Payload("none", NoList, NoList, NoList)

init(doc) ==
  /\ phase = "constructed"
  /\ phase' = "ready"
  /\ payload' = doc
  /\ IF doc.kind = "ok"
     THEN LET st == LoadAll(doc)
          IN /\ currencyScales' = st.currencyScales
             /\ cache' = st.cache
             /\ loaded' = ~st.threw
     ELSE UNCHANGED <<currencyScales, cache, loaded>>
  /\ UNCHANGED <<call, ret, configVars, requests, responses, routed>>


\* ------------------------------------------------------------------------
\* Results of a call: a returned number, a returned string, or a thrown Error
\* ------------------------------------------------------------------------
NoProductInfo  == "No product info"
NoCurrencyInfo == "No currency info"

RetNone     == [st |-> "none",   num |-> NaN, str |-> <<>>, err |-> ""]
RetNum(n)   == [st |-> "number", num |-> n,   str |-> <<>>, err |-> ""]
RetStr(s)   == [st |-> "string", num |-> NaN, str |-> s,    err |-> ""]
RetThrow(e) == [st |-> "throw",  num |-> NaN, str |-> <<>>, err |-> e]

\* ------------------------------------------------------------------------
\* ProductInfoCache accessors and scalers
\* ------------------------------------------------------------------------
isLoaded == loaded

\* get(symbol) !== undefined
get(symbol) == MapHas(cache, symbol)

scalePrice(symbol, decimal) ==
  IF ~MapHas(cache, symbol) THEN RetThrow(NoProductInfo)
  ELSE RetNum(MathRound(NumMul(ParseFloat(decimal), cache[symbol].priceScale)))

scaleRatio_DefaultFactor(symbol, decimal) ==
  IF ~MapHas(cache, symbol) THEN RetNum(MathRound(NumMul(ParseFloat(decimal), Int2Num(1))))
  ELSE RetNum(MathRound(NumMul(ParseFloat(decimal), cache[symbol].ratioScale)))

scaleRatio(symbol, decimal) ==
  IF ~MapHas(cache, symbol) THEN RetThrow(NoProductInfo)
  ELSE RetNum(MathRound(NumMul(ParseFloat(decimal), cache[symbol].ratioScale)))

scaleValue(symbol, decimal) ==
  IF ~MapHas(cache, symbol) THEN RetThrow(NoProductInfo)
  ELSE RetNum(MathRound(NumMul(ParseFloat(decimal), cache[symbol].valueScale)))

unscalePrice(symbol, scaled) ==
  IF ~MapHas(cache, symbol) THEN RetThrow(NoProductInfo)
  ELSE RetStr(NumToString(NumDiv(scaled, cache[symbol].priceScale)))

scaleCurrencyAmount(currency, decimal) ==
  IF ~MapHas(currencyScales, currency) THEN RetThrow(NoCurrencyInfo)
  ELSE RetNum(MathRound(NumMul(ParseFloat(decimal), currencyScales[currency])))

unscaleCurrencyAmount(currency, amountEv) ==
  IF ~MapHas(currencyScales, currency) THEN RetThrow(NoCurrencyInfo)
  ELSE RetStr(NumToString(NumDiv(amountEv, currencyScales[currency])))

\* ------------------------------------------------------------------------
\* JSON-like values.  An object is the sequence of its own enumerable
\* entries in Object.entries order; its keys are pairwise different.
\* ------------------------------------------------------------------------
\* every value has the same five fields; only the one its type names matters.
\* The elements of an array are entries with the empty key.
JValue(t, b, num, str, items) == [t |-> t, b |-> b, num |-> num, str |-> str, items |-> items]

Entry(k, v) == [k |-> k, v |-> v]

JNull     == JValue("null",  FALSE, NaN, <<>>, <<>>)
JUndef    == JValue("undef", FALSE, NaN, <<>>, <<>>)
JBool(b)  == JValue("bool",  b,     NaN, <<>>, <<>>)
JNum(n)   == JValue("num",   FALSE, n,   <<>>, <<>>)
JStr(s)   == JValue("str",   FALSE, NaN, s,    <<>>)
JArr(xs)  == JValue("arr",   FALSE, NaN, <<>>, [i \in 1..Len(xs) |-> Entry(<<>>, xs[i])])
JObj(es)  == JValue("obj",   FALSE, NaN, <<>>, es)

\* the elements of an array value
Elements(a) == [i \in 1..Len(a.items) |-> a.items[i].v]

\* k in obj
HasKey(es, k) == \E i \in 1..Len(es) : es[i].k = k

\* obj[k] for a key that is present
ValueOf(es, k) == es[CHOOSE i \in 1..Len(es) : es[i].k = k].v

\* result[k] = v : overwrite in place, or append a new property
SetKey(es, k, v) ==
  IF HasKey(es, k)
  THEN [i \in 1..Len(es) |-> IF es[i].k = k THEN Entry(k, v) ELSE es[i]]
  ELSE Append(es, Entry(k, v))

Ep == <<"E", "p">>
Er == <<"E", "r">>
Ev == <<"E", "v">>

\* field names of responses and requests
price   == <<"p", "r", "i", "c", "e">>
priceEp == <<"p", "r", "i", "c", "e", "E", "p">>
priceEr == <<"p", "r", "i", "c", "e", "E", "r">>
qtyEv   == <<"q", "t", "y", "E", "v">>
side    == <<"s", "i", "d", "e">>
rows    == <<"r", "o", "w", "s">>

\* the test of the fourth branch: the key has a scaled sibling in the object
HasScaledSibling_Never(es, key) == FALSE

HasScaledSibling(es, key) ==
  HasKey(es, key \o Ep) \/ HasKey(es, key \o Er) \/ HasKey(es, key \o Ev)

\* ------------------------------------------------------------------------
\* ProductInfoCache.convertResponse
\* ------------------------------------------------------------------------
\* const info = this.cache.get(symbol); if (!info) return data;
NoInfo == ProductInfo(<<>>, "", NaN, NaN, NaN, NaN)

LookupInfo_Default(symbol) ==
  [found |-> TRUE,
   info  |-> IF MapHas(cache, symbol) THEN cache[symbol]
             ELSE ProductInfo(symbol, "linear", Int2Num(1), Int2Num(1), Int2Num(1), Int2Num(1))]

LookupInfo(symbol) ==
  [found |-> MapHas(cache, symbol),
   info  |-> IF MapHas(cache, symbol) THEN cache[symbol] ELSE NoInfo]

\* the divisor of each of the three converting branches
PriceDivisor(info) == info.priceScale

RatioDivisor_Price(info) == info.priceScale

RatioDivisor(info) == info.ratioScale

ValueDivisor(info) == info.valueScale

RECURSIVE convertResponse(_, _)
RECURSIVE ConvertEntries(_, _, _, _, _)

convertResponse(symbol, data) ==
  IF data.t \in {"null", "undef"} THEN data
  ELSE IF data.t = "arr"
    THEN JArr([i \in 1..Len(data.items) |-> convertResponse(symbol, data.items[i].v)])
  ELSE IF data.t # "obj" THEN data
  ELSE IF ~LookupInfo(symbol).found THEN data
  ELSE JObj(ConvertEntries(symbol, LookupInfo(symbol).info, data.items, 1, <<>>))

\* the for loop over Object.entries(obj), from entry i on, with `result`
ConvertEntries(symbol, info, es, i, result) ==
  IF i > Len(es) THEN result
  ELSE
    LET key   == es[i].k
        value == es[i].v
        next  ==
          IF EndsWith(key, Ep) /\ value.t = "num"
            THEN SetKey(result, SliceOffEnd(key, 2),
                        JStr(NumToString(NumDiv(value.num, PriceDivisor(info)))))
          ELSE IF EndsWith(key, Er) /\ value.t = "num"
            THEN SetKey(result, SliceOffEnd(key, 2),
                        JStr(NumToString(NumDiv(value.num, RatioDivisor(info)))))
          ELSE IF EndsWith(key, Ev) /\ value.t = "num"
            THEN SetKey(result, SliceOffEnd(key, 2),
                        JStr(NumToString(NumDiv(value.num, ValueDivisor(info)))))
          ELSE IF HasScaledSibling(es, key) THEN result
          ELSE IF value.t \in {"obj", "arr"}
            THEN SetKey(result, key, convertResponse(symbol, value))
          ELSE SetKey(result, key, value)
    IN ConvertEntries(symbol, info, es, i + 1, next)


\* ------------------------------------------------------------------------
\* ContractRouter
\* ------------------------------------------------------------------------
linear  == <<"l", "i", "n", "e", "a", "r">>
inverse == <<"i", "n", "v", "e", "r", "s", "e">>
spot    == <<"s", "p", "o", "t">>

ContractTypes == {linear, inverse, spot}

Operations ==
  { "placeOrder", "cancelOrder", "amendOrder", "cancelAll", "setLeverage",
    "switchPosMode", "account", "positions", "openOrders", "orderHistory",
    "tradeHistory", "ticker", "orderbook", "klines", "recentTrades", "fundingRate" }

LinearEndpoints ==
  [ placeOrder    |-> "/g-orders/create",
    cancelOrder   |-> "/g-orders/cancel",
    amendOrder    |-> "/g-orders/replace",
    cancelAll     |-> "/g-orders/all",
    setLeverage   |-> "/g-positions/leverage",
    switchPosMode |-> "/g-positions/switch-pos-mode-sync",
    account       |-> "/g-accounts/accountPositions",
    positions     |-> "/g-accounts/positions",
    openOrders    |-> "/g-orders/activeList",
    orderHistory  |-> "/api-data/g-futures/orders",
    tradeHistory  |-> "/api-data/g-futures/trades",
    ticker        |-> "/md/v2/ticker/24hr",
    orderbook     |-> "/md/v2/orderbook",
    klines        |-> "/exchange/public/md/v2/kline/list",
    recentTrades  |-> "/md/v2/trade",
    fundingRate   |-> "/api-data/public/data/funding-rate-history" ]

InverseEndpoints_AsLinear == LinearEndpoints

InverseEndpoints ==
  [ placeOrder    |-> "/orders/create",
    cancelOrder   |-> "/orders/cancel",
    amendOrder    |-> "/orders/replace",
    cancelAll     |-> "/orders/all",
    setLeverage   |-> "/positions/leverage",
    switchPosMode |-> "/positions/switch-pos-mode-sync",
    account       |-> "/accounts/accountPositions",
    positions     |-> "/accounts/positions",
    openOrders    |-> "/orders/activeList",
    orderHistory  |-> "/exchange/order/list",
    tradeHistory  |-> "/exchange/order/trade",
    ticker        |-> "/md/v1/ticker/24hr",
    orderbook     |-> "/md/orderbook",
    klines        |-> "/exchange/public/md/v2/kline",
    recentTrades  |-> "/md/trade",
    fundingRate   |-> "/api-data/public/data/funding-rate-history" ]

SpotEndpoints ==
  [ placeOrder    |-> "/spot/orders/create",
    cancelOrder   |-> "/spot/orders",
    amendOrder    |-> "/spot/orders",
    cancelAll     |-> "/spot/orders/all",
    setLeverage   |-> "",
    switchPosMode |-> "",
    account       |-> "",
    positions     |-> "",
    openOrders    |-> "/spot/orders",
    orderHistory  |-> "/api-data/spots/orders",
    tradeHistory  |-> "/api-data/spots/trades",
    ticker        |-> "/md/spot/ticker/24hr",
    orderbook     |-> "/md/orderbook",
    klines        |-> "/exchange/public/md/v2/kline/list",
    recentTrades  |-> "/md/trade",
    fundingRate   |-> "" ]

ENDPOINTS ==
  [ct \in ContractTypes |->
     IF ct = linear THEN LinearEndpoints
     ELSE IF ct = inverse THEN InverseEndpoints
     ELSE SpotEndpoints]

getEndpoint_LinearFallback(contractType, operation) ==
  IF ENDPOINTS[contractType][operation] = "" THEN LinearEndpoints[operation]
  ELSE ENDPOINTS[contractType][operation]

getEndpoint(contractType, operation) == ENDPOINTS[contractType][operation]

resolveSymbol_AlwaysPrefix(contractType, symbol) ==
  IF contractType = spot THEN <<"s">> \o symbol
  ELSE symbol

resolveSymbol_PrefixAll(contractType, symbol) ==
  IF ~StartsWith(symbol, <<"s">>) THEN <<"s">> \o symbol
  ELSE symbol

resolveSymbol(contractType, symbol) ==
  IF contractType = spot /\ ~StartsWith(symbol, <<"s">>) THEN <<"s">> \o symbol
  ELSE symbol

USD == <<"U", "S", "D">>

\* the three messages of validateSymbol (the symbol itself left out), and null
SpotLooksCoinM    == "looks like a Coin-M symbol. Spot symbols should end in USDT"
InverseLooksUsdtM == "looks like a USDT-M symbol. Use contractType=linear for USDT-M symbols"
LinearLooksCoinM  == "looks like a Coin-M symbol. Use contractType=inverse for Coin-M symbols"
NoSymbolError     == ""

validateSymbol_InverseUsd(contractType, symbol) ==
  IF contractType = spot THEN
    LET raw == IF StartsWith(symbol, <<"s">>) THEN SliceFrom(symbol, 1) ELSE symbol
    IN IF EndsWith(raw, USD) /\ ~EndsWith(raw, USDT) THEN SpotLooksCoinM
       ELSE NoSymbolError
  ELSE IF contractType = inverse /\ EndsWith(symbol, USD) THEN InverseLooksUsdtM
  ELSE IF contractType = linear /\ EndsWith(symbol, USD) /\ ~EndsWith(symbol, USDT)
    THEN LinearLooksCoinM
  ELSE NoSymbolError

validateSymbol_SpotUnchecked(contractType, symbol) ==
  IF contractType = spot THEN NoSymbolError
  ELSE IF contractType = inverse /\ EndsWith(symbol, USDT) THEN InverseLooksUsdtM
  ELSE IF contractType = linear /\ EndsWith(symbol, USD) /\ ~EndsWith(symbol, USDT)
    THEN LinearLooksCoinM
  ELSE NoSymbolError

validateSymbol_SpotRequiresPrefix(contractType, symbol) ==
  IF contractType = spot THEN
    IF ~StartsWith(symbol, <<"s">>) THEN SpotLooksCoinM
    ELSE IF EndsWith(SliceFrom(symbol, 1), USD) /\ ~EndsWith(SliceFrom(symbol, 1), USDT)
      THEN SpotLooksCoinM
    ELSE NoSymbolError
  ELSE IF contractType = inverse /\ EndsWith(symbol, USDT) THEN InverseLooksUsdtM
  ELSE IF contractType = linear /\ EndsWith(symbol, USD) /\ ~EndsWith(symbol, USDT)
    THEN LinearLooksCoinM
  ELSE NoSymbolError

validateSymbol(contractType, symbol) ==
  IF contractType = spot THEN
    LET raw == IF StartsWith(symbol, <<"s">>) THEN SliceFrom(symbol, 1) ELSE symbol
    IN IF EndsWith(raw, USD) /\ ~EndsWith(raw, USDT) THEN SpotLooksCoinM
       ELSE NoSymbolError
  ELSE IF contractType = inverse /\ EndsWith(symbol, USDT) THEN InverseLooksUsdtM
  ELSE IF contractType = linear /\ EndsWith(symbol, USD) /\ ~EndsWith(symbol, USDT)
    THEN LinearLooksCoinM
  ELSE NoSymbolError

isInverse(contractType) == contractType = inverse

isSpot_Never(contractType) == FALSE

isSpot(contractType) == contractType = spot

\* ------------------------------------------------------------------------
\* Start-up configuration and PhemexClient
\* ------------------------------------------------------------------------
\* Number(s) for a string made of an optional sign, digits and at most one
\* point (the empty string converts to 0, anything else to NaN)
NumberOf(s) ==
  LET body   == IF Len(s) >= 1 /\ s[1] \in {"+", "-"} THEN SliceFrom(s, 1) ELSE s
      points == {i \in 1..Len(body) : body[i] = "."}
      digits == {i \in 1..Len(body) : IsDigit(body[i])}
  IN IF s = <<>> THEN Int2Num(0)
     ELSE IF digits # {} /\ Cardinality(points) <= 1
             /\ digits \cup points = 1..Len(body)
       THEN ParseFloat(s)
     ELSE NaN

\* process.env.PHEMEX_MAX_ORDER_VALUE ? Number(process.env.PHEMEX_MAX_ORDER_VALUE) : undefined
ConfigMaxOrderValue(e) ==
  IF e.t = "str" /\ e.str # <<>> THEN JNum(NumberOf(e.str)) ELSE JUndef

DefaultMaxOrderValue == 100

\* this.maxOrderValue = config.maxOrderValue ?? 100
ClientMaxOrderValue(configured) ==
  IF configured.t = "undef" THEN Int2Num(DefaultMaxOrderValue) ELSE configured.num

\* buildQueryParams: entries whose value is undefined or null are left out
IsSent(entry) == entry.v.t \notin {"undef", "null"}

buildQueryParams(params) == SelectSeq(params, IsSent)

Request(method, path, query) == [method |-> method, path |-> path, query |-> query]

\* the exchange's answer to a request. PhemexResponse is { code, msg, data };
\* PhemexMdResponse is { error, id, result }, with result held in data and a
\* null error as the empty text. Both are kept in one record shape.
Answer(code, msg, data, error) == [code |-> code, msg |-> msg, data |-> data, error |-> error]

PhemexResponse(code, data) == Answer(code, "", data, "")

\* a refusal of the exchange with its msg text
PhemexFailure(code, msg) == Answer(code, msg, JNull, "")

PhemexMdResponse(error, result) == Answer(0, "", result, error)

\* getErrorMessage: the text after "Order FAILED: " is left out
OrderFailed == "Order FAILED"

\* ------------------------------------------------------------------------
\* Tool results
\* ------------------------------------------------------------------------
\* MCP: { content, isError: true }; CLI: fail(message), exit status 1
ToolError(message) ==
  [st |-> "toolError", num |-> NaN, str |-> <<>>, err |-> message, json |-> JNull]

\* MCP: { content } with the response data; CLI: succeed(data), exit status 0
ToolOk(data) ==
  [st |-> "toolOk", num |-> NaN, str |-> <<>>, err |-> "", json |-> data]

\* what a handler did: the requests it issued and what it reported
Outcome(sent, result) == [sent |-> sent, result |-> result]

\* the answers a handler awaited: res for the one request it issued
Answered(outcome, res) == IF outcome.sent = <<>> THEN <<>> ELSE <<res>>

\* ------------------------------------------------------------------------
\* place_order (MCP tool and CLI command)
\* ------------------------------------------------------------------------
\* parameter and query field names
symbolKey       == <<"s", "y", "m", "b", "o", "l">>
orderQtyKey     == <<"o", "r", "d", "e", "r", "Q", "t", "y">>
ordTypeKey      == <<"o", "r", "d", "T", "y", "p", "e">>
timeInForceKey  == <<"t", "i", "m", "e", "I", "n", "F", "o", "r", "c", "e">>
posSideKey      == <<"p", "o", "s", "S", "i", "d", "e">>
stopPxKey       == <<"s", "t", "o", "p", "P", "x">>
triggerTypeKey  == <<"t", "r", "i", "g", "g", "e", "r", "T", "y", "p", "e">>
reduceOnlyKey   == <<"r", "e", "d", "u", "c", "e", "O", "n", "l", "y">>
takeProfitKey   == <<"t", "a", "k", "e", "P", "r", "o", "f", "i", "t">>
stopLossKey     == <<"s", "t", "o", "p", "L", "o", "s", "s">>
contractTypeKey == <<"c", "o", "n", "t", "r", "a", "c", "t", "T", "y", "p", "e">>
qtyTypeKey      == <<"q", "t", "y", "T", "y", "p", "e">>
clOrdIDKey      == <<"c", "l", "O", "r", "d", "I", "D">>
stopPxEpKey     == <<"s", "t", "o", "p", "P", "x", "E", "p">>
takeProfitEpKey == <<"t", "a", "k", "e", "P", "r", "o", "f", "i", "t", "E", "p">>
stopLossEpKey   == <<"s", "t", "o", "p", "L", "o", "s", "s", "E", "p">>
quoteQtyEvKey   == <<"q", "u", "o", "t", "e", "Q", "t", "y", "E", "v">>
baseQtyEvKey    == <<"b", "a", "s", "e", "Q", "t", "y", "E", "v">>
orderQtyRqKey   == <<"o", "r", "d", "e", "r", "Q", "t", "y", "R", "q">>
priceRpKey      == <<"p", "r", "i", "c", "e", "R", "p">>
stopPxRpKey     == <<"s", "t", "o", "p", "P", "x", "R", "p">>
takeProfitRpKey == <<"t", "a", "k", "e", "P", "r", "o", "f", "i", "t", "R", "p">>
stopLossRpKey   == <<"s", "t", "o", "p", "L", "o", "s", "s", "R", "p">>

\* parameter values
Buy            == <<"B", "u", "y">>
Sell           == <<"S", "e", "l", "l">>
Market         == <<"M", "a", "r", "k", "e", "t">>
Limit          == <<"L", "i", "m", "i", "t">>
StopLimit      == <<"S", "t", "o", "p", "L", "i", "m", "i", "t">>
GoodTillCancel == <<"G", "o", "o", "d", "T", "i", "l", "l", "C", "a", "n", "c", "e", "l">>
Merged         == <<"M", "e", "r", "g", "e", "d">>
ByBase         == <<"B", "y", "B", "a", "s", "e">>
ByQuote        == <<"B", "y", "Q", "u", "o", "t", "e">>
ByMarkPrice    == <<"B", "y", "M", "a", "r", "k", "P", "r", "i", "c", "e">>
TrueText       == <<"t", "r", "u", "e">>
FalseText      == <<"f", "a", "l", "s", "e">>

\* "betta2moon" + 30 hex digits of a fresh UUID: the digits play no part in
\* what the handlers do and are left out
clOrdID == <<"b", "e", "t", "t", "a", "2", "m", "o", "o", "n">>

\* params[key], undefined when the key is absent
Param(params, key) == IF HasKey(params, key) THEN ValueOf(params, key) ELSE JUndef

\* parseInt(s): optional sign and the leading run of decimal digits
ParseInt(s) ==
  LET hasSign == Len(s) >= 1 /\ s[1] \in {"+", "-"}
      i0      == IF hasSign THEN 2 ELSE 1
      n       == DigitRun(s, i0)
      v       == DigitsVal(SubSeq(s, i0, i0 + n - 1))
  IN IF n = 0 THEN NaN
     ELSE Int2Num(IF hasSign /\ s[1] = "-" THEN -v ELSE v)

NotLoadedInverse == "Product info not loaded. Coin-M requires product metadata"
NotLoadedSpot    == "Product info not loaded. Spot requires product metadata"

\* queryParams while it is being filled in; threw is the message of the Error
\* a scale call raised ("" while none was raised)
Build(query, threw) == [query |-> query, threw |-> threw]

\* one conditional assignment to queryParams: whether its condition holds,
\* the field, the message of the Error its right-hand side raises ("" when
\* it raises none) and the value assigned
Assignment(given, key, threw, value) ==
  [given |-> given, key |-> key, threw |-> threw, value |-> value]

\* if (v !== undefined) queryParams[k] = v
SetDefined(k, v) == Assignment(v.t # "undef", k, "", v)

\* if (v !== undefined) queryParams[k] = pc.scaleX(resolved, v), r being the
\* result of the scale call
SetScaled(k, v, r) ==
  Assignment(v.t # "undef", k, IF r.st = "throw" THEN r.err ELSE "", JNum(r.num))

\* if (reduceOnly) queryParams.reduceOnly = true
SetReduceOnly(reduceOnly) == Assignment(reduceOnly, reduceOnlyKey, "", JBool(TRUE))

\* the statements from the i-th on, in order; the first Error ends them
RECURSIVE Assign(_, _, _)
Assign(statements, i, b) ==
  IF i > Len(statements) \/ b.threw # "" THEN b
  ELSE LET a == statements[i]
       IN Assign(statements, i + 1,
                 IF ~a.given THEN b
                 ELSE IF a.threw # "" THEN Build(b.query, a.threw)
                 ELSE Build(SetKey(b.query, a.key, a.value), ""))

\* the three branches that fill queryParams; o holds the handler's locals.
\* The MCP handler has the same statements on params.*.
placeOrderQuery(ct, resolved, o) ==
  IF isInverse(ct) THEN
    IF ~isLoaded THEN Build(<<>>, NotLoadedInverse)
    ELSE
      Assign(<<SetScaled(priceEp, o.price, scalePrice(resolved, o.price.str)),
               SetScaled(stopPxEpKey, o.stopPx, scalePrice(resolved, o.stopPx.str)),
               SetScaled(takeProfitEpKey, o.takeProfit, scalePrice(resolved, o.takeProfit.str)),
               SetScaled(stopLossEpKey, o.stopLoss, scalePrice(resolved, o.stopLoss.str)),
               SetDefined(posSideKey, o.posSide),
               SetDefined(triggerTypeKey, o.triggerType),
               SetReduceOnly(o.reduceOnly)>>,
             1,
             Build(<<Entry(symbolKey, JStr(resolved)), Entry(clOrdIDKey, JStr(clOrdID)),
                     Entry(side, o.side),
                     Entry(orderQtyKey, JNum(ParseInt(o.orderQty.str))),
                     Entry(ordTypeKey, o.ordType),
                     Entry(timeInForceKey, o.timeInForce)>>, ""))
  ELSE IF isSpot(ct) THEN
    IF ~isLoaded THEN Build(<<>>, NotLoadedSpot)
    ELSE
      Assign(<<SetScaled(IF o.qtyType = JStr(ByQuote) THEN quoteQtyEvKey ELSE baseQtyEvKey,
                         o.orderQty, scaleValue(resolved, o.orderQty.str)),
               SetScaled(priceEp, o.price, scalePrice(resolved, o.price.str)),
               SetScaled(stopPxEpKey, o.stopPx, scalePrice(resolved, o.stopPx.str)),
               SetDefined(triggerTypeKey, o.triggerType)>>,
             1,
             Build(<<Entry(symbolKey, JStr(resolved)), Entry(clOrdIDKey, JStr(clOrdID)),
                     Entry(side, o.side), Entry(ordTypeKey, o.ordType),
                     Entry(timeInForceKey, o.timeInForce),
                     Entry(qtyTypeKey, o.qtyType)>>, ""))
  ELSE
    Assign(<<SetDefined(priceRpKey, o.price),
             SetDefined(stopPxRpKey, o.stopPx),
             SetDefined(takeProfitRpKey, o.takeProfit),
             SetDefined(stopLossRpKey, o.stopLoss),
             SetDefined(triggerTypeKey, o.triggerType),
             SetReduceOnly(o.reduceOnly)>>,
           1,
           Build(<<Entry(symbolKey, JStr(resolved)), Entry(clOrdIDKey, JStr(clOrdID)),
                   Entry(side, o.side), Entry(orderQtyRqKey, o.orderQty),
                   Entry(ordTypeKey, o.ordType), Entry(timeInForceKey, o.timeInForce),
                   Entry(posSideKey, o.posSide)>>, ""))

\* validation, routing, the request and the handling of the answer res
placeOrder(ct, symbol, o, res) ==
  LET symbolErr == validateSymbol(ct, symbol)
      resolved  == resolveSymbol(ct, symbol)
      endpoint  == getEndpoint(ct, "placeOrder")
      b         == placeOrderQuery(ct, resolved, o)
      sent      == <<Request("PUT", endpoint, buildQueryParams(b.query))>>
  IN IF symbolErr # NoSymbolError THEN Outcome(<<>>, ToolError(symbolErr))
     ELSE IF b.threw # "" THEN Outcome(<<>>, ToolError(b.threw))
     ELSE IF res.code # 0 THEN Outcome(sent, ToolError(OrderFailed))
     ELSE Outcome(sent,
                  ToolOk(IF isInverse(ct) \/ isSpot(ct)
                         THEN convertResponse(resolved, res.data)
                         ELSE res.data))

\* v ?? d
OrDefault(v, d) == IF v.t \in {"undef", "null"} THEN d ELSE v

\* the MCP tool; params has passed the tool's schema, which fills in the
\* defaults of timeInForce, posSide, reduceOnly, contractType and qtyType
registerPlaceOrder(params, res) ==
  placeOrder(Param(params, contractTypeKey).str, Param(params, symbolKey).str,
             [ side        |-> Param(params, side),
               orderQty    |-> Param(params, orderQtyKey),
               ordType     |-> Param(params, ordTypeKey),
               price       |-> Param(params, price),
               timeInForce |-> Param(params, timeInForceKey),
               posSide     |-> OrDefault(Param(params, posSideKey), JStr(Merged)),
               stopPx      |-> Param(params, stopPxKey),
               triggerType |-> Param(params, triggerTypeKey),
               reduceOnly  |-> Param(params, reduceOnlyKey) = JBool(TRUE),
               takeProfit  |-> Param(params, takeProfitKey),
               stopLoss    |-> Param(params, stopLossKey),
               qtyType     |-> OrDefault(Param(params, qtyTypeKey), JStr(ByBase)) ],
             res)

MissingParameter    == "Missing required parameter"
InvalidContractType == "Invalid contractType"

\* requireString ends the process unless params[key] is a non-empty string
IsRequiredString(params, key) ==
  Param(params, key).t = "str" /\ Param(params, key).str # <<>>

\* optString: a string as it is, a number through String(v), else undefined
optString(params, key) ==
  LET v == Param(params, key)
  IN IF v.t = "str" THEN v
     ELSE IF v.t = "num" THEN JStr(NumToString(v.num))
     ELSE JUndef

optBool(params, key) ==
  LET v == Param(params, key)
  IN IF v.t = "bool" THEN v.b
     ELSE v = JStr(TrueText)

\* getContractType: params.contractType ?? "linear", which must be one of the three
getContractType(params) == OrDefault(Param(params, contractTypeKey), JStr(linear))

\* the CLI command
handlePlaceOrder(params, res) ==
  IF \E key \in {symbolKey, side, orderQtyKey, ordTypeKey} : ~IsRequiredString(params, key)
    THEN Outcome(<<>>, ToolError(MissingParameter))
  ELSE IF getContractType(params).t # "str" \/ getContractType(params).str \notin ContractTypes
    THEN Outcome(<<>>, ToolError(InvalidContractType))
  ELSE
    placeOrder(getContractType(params).str, Param(params, symbolKey).str,
               [ side        |-> Param(params, side),
                 orderQty    |-> Param(params, orderQtyKey),
                 ordType     |-> Param(params, ordTypeKey),
                 price       |-> optString(params, price),
                 timeInForce |-> OrDefault(Param(params, timeInForceKey), JStr(GoodTillCancel)),
                 posSide     |-> OrDefault(Param(params, posSideKey), JStr(Merged)),
                 stopPx      |-> optString(params, stopPxKey),
                 triggerType |-> optString(params, triggerTypeKey),
                 reduceOnly  |-> optBool(params, reduceOnlyKey),
                 takeProfit  |-> optString(params, takeProfitKey),
                 stopLoss    |-> optString(params, stopLossKey),
                 qtyType     |-> OrDefault(Param(params, qtyTypeKey), JStr(ByBase)) ],
               res)

\* ------------------------------------------------------------------------
\* transfer_funds (MCP tool and CLI command)
\* ------------------------------------------------------------------------
currencyKey   == <<"c", "u", "r", "r", "e", "n", "c", "y">>
amountKey     == <<"a", "m", "o", "u", "n", "t">>
directionKey  == <<"d", "i", "r", "e", "c", "t", "i", "o", "n">>
amountEvKey   == <<"a", "m", "o", "u", "n", "t", "E", "v">>
moveOpKey     == <<"m", "o", "v", "e", "O", "p">>
statusKey     == <<"s", "t", "a", "t", "u", "s">>
statusTextKey == <<"s", "t", "a", "t", "u", "s", "T", "e", "x", "t">>

spot_to_futures == <<"s", "p", "o", "t", "_", "t", "o", "_", "f", "u", "t", "u", "r", "e", "s">>
futures_to_spot == <<"f", "u", "t", "u", "r", "e", "s", "_", "t", "o", "_", "s", "p", "o", "t">>

\* z.enum(["spot_to_futures", "futures_to_spot"])
Directions == {spot_to_futures, futures_to_spot}

TransferNotLoaded == "Product info not loaded"
UnknownCurrency   == "Unknown currency"
TransferFailed    == "Transfer failed"
InvalidArguments  == "Invalid arguments"

\* TRANSFER_STATUS[status] ?? "Processing"
TRANSFER_STATUS(status) ==
  IF status = Int2Num(3) THEN <<"R", "e", "j", "e", "c", "t", "e", "d">>
  ELSE IF status = Int2Num(6) THEN <<"E", "r", "r", "o", "r">>
  ELSE IF status = Int2Num(10) THEN <<"S", "u", "c", "c", "e", "s", "s">>
  ELSE IF status = Int2Num(11) THEN <<"F", "a", "i", "l", "e", "d">>
  ELSE <<"P", "r", "o", "c", "e", "s", "s", "i", "n", "g">>

\* delete obj[k]
DeleteKey(es, k) == SelectSeq(es, LAMBDA entry : entry.k # k)

\* direction === "spot_to_futures" ? 2 : 1
moveOp(direction) == IF direction = spot_to_futures THEN 2 ELSE 1

\* amountEv of the answer shown as amount
DisplayAmount(currency, es) ==
  IF Param(es, amountEvKey).t = "num"
    THEN DeleteKey(SetKey(es, amountKey,
                          JStr(unscaleCurrencyAmount(currency, Param(es, amountEvKey).num).str)),
                   amountEvKey)
  ELSE es

\* status of the answer named in statusText
DisplayStatus(es) ==
  IF Param(es, statusKey).t = "num"
    THEN SetKey(es, statusTextKey, JStr(TRANSFER_STATUS(Param(es, statusKey).num)))
  ELSE es

\* the body of the two handlers, once their parameters have been read
transferFunds(currency, amount, direction, res) ==
  IF ~isLoaded THEN Outcome(<<>>, ToolError(TransferNotLoaded))
  ELSE IF scaleCurrencyAmount(currency, amount).st = "throw"
    THEN Outcome(<<>>, ToolError(UnknownCurrency))
  ELSE IF res.code # 0
    THEN Outcome(<<Request("POST", "/assets/transfer",
                           <<Entry(amountEvKey, JNum(scaleCurrencyAmount(currency, amount).num)),
                             Entry(currencyKey, JStr(currency)),
                             Entry(moveOpKey, JNum(Int2Num(moveOp(direction))))>>)>>,
                 ToolError(TransferFailed))
  ELSE Outcome(<<Request("POST", "/assets/transfer",
                         <<Entry(amountEvKey, JNum(scaleCurrencyAmount(currency, amount).num)),
                           Entry(currencyKey, JStr(currency)),
                           Entry(moveOpKey, JNum(Int2Num(moveOp(direction))))>>)>>,
               ToolOk(JObj(DisplayStatus(DisplayAmount(currency, res.data.items)))))

\* the MCP tool: parameters that do not pass the schema never reach the handler
registerTransferFunds(params, res) ==
  IF \/ Param(params, currencyKey).t # "str"
     \/ Param(params, amountKey).t # "str"
     \/ Param(params, directionKey).t # "str"
    THEN Outcome(<<>>, ToolError(InvalidArguments))
  ELSE IF Param(params, directionKey).str \notin Directions
    THEN Outcome(<<>>, ToolError(InvalidArguments))
  ELSE transferFunds(Param(params, currencyKey).str, Param(params, amountKey).str,
                     Param(params, directionKey).str, res)

\* the CLI command
handleTransferFunds(params, res) ==
  IF \E key \in {currencyKey, amountKey, directionKey} : ~IsRequiredString(params, key)
    THEN Outcome(<<>>, ToolError(MissingParameter))
  ELSE transferFunds(Param(params, currencyKey).str, Param(params, amountKey).str,
                     Param(params, directionKey).str, res)

\* ------------------------------------------------------------------------
\* get_account, get_positions, get_funding_rate, set_leverage and
\* switch_pos_mode (MCP tools and CLI commands)
\* ------------------------------------------------------------------------
limitKey         == <<"l", "i", "m", "i", "t">>
leverageKey      == <<"l", "e", "v", "e", "r", "a", "g", "e">>
leverageErKey    == <<"l", "e", "v", "e", "r", "a", "g", "e", "E", "r">>
leverageRrKey    == <<"l", "e", "v", "e", "r", "a", "g", "e", "R", "r">>
targetPosModeKey == <<"t", "a", "r", "g", "e", "t", "P", "o", "s", "M", "o", "d", "e">>

OneWay == <<"O", "n", "e", "W", "a", "y">>
Hedged == <<"H", "e", "d", "g", "e", "d">>

\* the messages of the handlers, the tool's own wording left out
SpotNotSupported    == "Spot does not support this operation"
InverseNotSupported == "Position mode switching is not supported for Coin-M"
RequestFailed       == "Request failed"
MustBeNumber        == "Parameter must be a number"

\* optNumber: undefined gives the default, a number itself, a string its
\* Number() unless that is NaN; anything else ends the process
optNumber(params, key, defaultVal) ==
  LET v == Param(params, key)
  IN IF v.t = "undef" THEN [failed |-> FALSE, value |-> defaultVal]
     ELSE IF v.t = "num" THEN [failed |-> FALSE, value |-> v]
     ELSE IF v.t = "str" /\ ~NumberOf(v.str).nan
       THEN [failed |-> FALSE, value |-> JNum(NumberOf(v.str))]
     ELSE [failed |-> TRUE, value |-> JUndef]

\* the message getContractType ends the process with, "" when it returns
ContractTypeError(params) ==
  IF getContractType(params).t # "str" THEN InvalidContractType
  ELSE IF getContractType(params).str \notin ContractTypes THEN InvalidContractType
  ELSE ""

\* the handlers of get_account and get_positions after their parameters
\* have been read: operation is "account" or "positions"
getByCurrency(contractType, operation, currency, res) ==
  IF isSpot(contractType) THEN Outcome(<<>>, ToolError(SpotNotSupported))
  ELSE IF res.code # 0
    THEN Outcome(<<Request("GET", getEndpoint(contractType, operation),
                           buildQueryParams(<<Entry(currencyKey, currency)>>))>>,
                 ToolError(RequestFailed))
  ELSE Outcome(<<Request("GET", getEndpoint(contractType, operation),
                         buildQueryParams(<<Entry(currencyKey, currency)>>))>>,
               ToolOk(res.data))

\* the MCP tools; the schema has filled in the defaults of currency and
\* contractType
registerGetAccount(params, res) ==
  getByCurrency(OrDefault(Param(params, contractTypeKey), JStr(linear)).str, "account",
                OrDefault(Param(params, currencyKey), JStr(USDT)), res)

registerGetPositions(params, res) ==
  getByCurrency(OrDefault(Param(params, contractTypeKey), JStr(linear)).str, "positions",
                OrDefault(Param(params, currencyKey), JStr(USDT)), res)

\* the CLI commands
handleGetAccount(params, res) ==
  IF ContractTypeError(params) # "" THEN Outcome(<<>>, ToolError(ContractTypeError(params)))
  ELSE getByCurrency(getContractType(params).str, "account",
                     OrDefault(Param(params, currencyKey), JStr(USDT)), res)

handleGetPositions(params, res) ==
  IF ContractTypeError(params) # "" THEN Outcome(<<>>, ToolError(ContractTypeError(params)))
  ELSE getByCurrency(getContractType(params).str, "positions",
                     OrDefault(Param(params, currencyKey), JStr(USDT)), res)

\* get_funding_rate after its parameters have been read
getFundingRate(contractType, symbol, limit, res) ==
  IF isSpot(contractType) THEN Outcome(<<>>, ToolError(SpotNotSupported))
  ELSE IF res.code # 0
    THEN Outcome(<<Request("GET", getEndpoint(contractType, "fundingRate"),
                           buildQueryParams(<<Entry(symbolKey, JStr(symbol)),
                                              Entry(limitKey, limit)>>))>>,
                 ToolError(RequestFailed))
  ELSE Outcome(<<Request("GET", getEndpoint(contractType, "fundingRate"),
                         buildQueryParams(<<Entry(symbolKey, JStr(symbol)),
                                            Entry(limitKey, limit)>>))>>,
               ToolOk(res.data))

registerGetFundingRate(params, res) ==
  getFundingRate(OrDefault(Param(params, contractTypeKey), JStr(linear)).str,
                 Param(params, symbolKey).str,
                 OrDefault(Param(params, limitKey), JNum(Int2Num(20))), res)

handleGetFundingRate(params, res) ==
  IF ~IsRequiredString(params, symbolKey) THEN Outcome(<<>>, ToolError(MissingParameter))
  ELSE IF optNumber(params, limitKey, JNum(Int2Num(20))).failed
    THEN Outcome(<<>>, ToolError(MustBeNumber))
  ELSE IF ContractTypeError(params) # "" THEN Outcome(<<>>, ToolError(ContractTypeError(params)))
  ELSE getFundingRate(getContractType(params).str, Param(params, symbolKey).str,
                      optNumber(params, limitKey, JNum(Int2Num(20))).value, res)

\* params of set_leverage: leverageEr scaled for inverse, leverageRr as given
setLeverageQuery(contractType, symbol, leverage) ==
  IF isInverse(contractType)
    THEN <<Entry(symbolKey, JStr(symbol)),
           Entry(leverageErKey, JNum(scaleRatio(symbol, NumToString(leverage.num)).num))>>
  ELSE <<Entry(symbolKey, JStr(symbol)), Entry(leverageRrKey, leverage)>>

\* set_leverage after its parameters have been read
setLeverage(contractType, symbol, leverage, res) ==
  IF isSpot(contractType) THEN Outcome(<<>>, ToolError(SpotNotSupported))
  ELSE IF validateSymbol(contractType, symbol) # NoSymbolError
    THEN Outcome(<<>>, ToolError(validateSymbol(contractType, symbol)))
  ELSE IF isInverse(contractType) /\ ~isLoaded
    THEN Outcome(<<>>, ToolError(NotLoadedInverse))
  ELSE IF isInverse(contractType) /\ scaleRatio(symbol, NumToString(leverage.num)).st = "throw"
    THEN Outcome(<<>>, ToolError(scaleRatio(symbol, NumToString(leverage.num)).err))
  ELSE IF res.code # 0
    THEN Outcome(<<Request("PUT", getEndpoint(contractType, "setLeverage"),
                           buildQueryParams(setLeverageQuery(contractType, symbol, leverage)))>>,
                 ToolError(RequestFailed))
  ELSE Outcome(<<Request("PUT", getEndpoint(contractType, "setLeverage"),
                         buildQueryParams(setLeverageQuery(contractType, symbol, leverage)))>>,
               ToolOk(IF isInverse(contractType) THEN convertResponse(symbol, res.data)
                      ELSE res.data))

registerSetLeverage(params, res) ==
  setLeverage(OrDefault(Param(params, contractTypeKey), JStr(linear)).str,
              Param(params, symbolKey).str, Param(params, leverageKey), res)

\* requireNumber is optNumber without a default, undefined ending the process
handleSetLeverage(params, res) ==
  IF ~IsRequiredString(params, symbolKey) THEN Outcome(<<>>, ToolError(MissingParameter))
  ELSE IF optNumber(params, leverageKey, JUndef).failed
    THEN Outcome(<<>>, ToolError(MustBeNumber))
  ELSE IF optNumber(params, leverageKey, JUndef).value.t = "undef"
    THEN Outcome(<<>>, ToolError(MissingParameter))
  ELSE IF ContractTypeError(params) # "" THEN Outcome(<<>>, ToolError(ContractTypeError(params)))
  ELSE setLeverage(getContractType(params).str, Param(params, symbolKey).str,
                   optNumber(params, leverageKey, JUndef).value, res)

\* switch_pos_mode after its parameters have been read
switchPosMode(contractType, symbol, targetPosMode, res) ==
  IF isSpot(contractType) THEN Outcome(<<>>, ToolError(SpotNotSupported))
  ELSE IF isInverse(contractType) THEN Outcome(<<>>, ToolError(InverseNotSupported))
  ELSE IF validateSymbol(contractType, symbol) # NoSymbolError
    THEN Outcome(<<>>, ToolError(validateSymbol(contractType, symbol)))
  ELSE IF res.code # 0
    THEN Outcome(<<Request("PUT", getEndpoint(contractType, "switchPosMode"),
                           buildQueryParams(<<Entry(symbolKey, JStr(symbol)),
                                              Entry(targetPosModeKey, targetPosMode)>>))>>,
                 ToolError(RequestFailed))
  ELSE Outcome(<<Request("PUT", getEndpoint(contractType, "switchPosMode"),
                         buildQueryParams(<<Entry(symbolKey, JStr(symbol)),
                                            Entry(targetPosModeKey, targetPosMode)>>))>>,
               ToolOk(IF isInverse(contractType) THEN convertResponse(symbol, res.data)
                      ELSE res.data))

registerSwitchPosMode(params, res) ==
  switchPosMode(OrDefault(Param(params, contractTypeKey), JStr(linear)).str,
                Param(params, symbolKey).str, Param(params, targetPosModeKey), res)

handleSwitchPosMode(params, res) ==
  IF \E key \in {symbolKey, targetPosModeKey} : ~IsRequiredString(params, key)
    THEN Outcome(<<>>, ToolError(MissingParameter))
  ELSE IF ContractTypeError(params) # "" THEN Outcome(<<>>, ToolError(ContractTypeError(params)))
  ELSE switchPosMode(getContractType(params).str, Param(params, symbolKey).str,
                     Param(params, targetPosModeKey), res)

\* ------------------------------------------------------------------------
\* get_ticker, get_open_orders, get_trades, cancel_order and amend_order
\* (MCP tools and CLI commands)
\* ------------------------------------------------------------------------
orderIDKey     == <<"o", "r", "d", "e", "r", "I", "D">>
origClOrdIDKey == <<"o", "r", "i", "g", "C", "l", "O", "r", "d", "I", "D">>
messageKey     == <<"m", "e", "s", "s", "a", "g", "e">>
ordersKey      == <<"o", "r", "d", "e", "r", "s">>

OM_ORDER_NOT_FOUND == "OM_ORDER_NOT_FOUND"

\* "No open orders for <symbol>.", the symbol left out
NoOpenOrders == <<"N", "o", " ", "o", "p", "e", "n", " ", "o", "r", "d", "e", "r", "s">>

NoOrderId     == "provide either orderID or clOrdID"
NotLoadedAmend == "Product info not loaded. Required for price/qty scaling"

\* !v for a value that is a string or undefined
IsFalsy(v) == v.t \in {"undef", "null"} \/ (v.t = "str" /\ v.str = <<>>)

\* the response data as the handlers report it: converted with the resolved
\* symbol for inverse and spot, as received for linear
Reported(contractType, resolved, data) ==
  IF isInverse(contractType) \/ isSpot(contractType) THEN convertResponse(resolved, data)
  ELSE data

\* get_ticker after its parameters have been read
getTicker(contractType, symbol, res) ==
  IF res.error # ""
    THEN Outcome(<<Request("GET", getEndpoint(contractType, "ticker"),
                           buildQueryParams(<<Entry(symbolKey,
                                                    JStr(resolveSymbol(contractType, symbol)))>>))>>,
                 ToolError(RequestFailed))
  ELSE Outcome(<<Request("GET", getEndpoint(contractType, "ticker"),
                         buildQueryParams(<<Entry(symbolKey,
                                                  JStr(resolveSymbol(contractType, symbol)))>>))>>,
               ToolOk(res.data))

registerGetTicker(params, res) ==
  getTicker(OrDefault(Param(params, contractTypeKey), JStr(linear)).str,
            Param(params, symbolKey).str, res)

handleGetTicker(params, res) ==
  IF ~IsRequiredString(params, symbolKey) THEN Outcome(<<>>, ToolError(MissingParameter))
  ELSE IF ContractTypeError(params) # "" THEN Outcome(<<>>, ToolError(ContractTypeError(params)))
  ELSE getTicker(getContractType(params).str, Param(params, symbolKey).str, res)

\* get_open_orders after its parameters have been read; none is what the
\* handler reports for the answer OM_ORDER_NOT_FOUND
getOpenOrders(contractType, symbol, none, res) ==
  IF validateSymbol(contractType, symbol) # NoSymbolError
    THEN Outcome(<<>>, ToolError(validateSymbol(contractType, symbol)))
  ELSE IF res.code # 0
    THEN Outcome(<<Request("GET", getEndpoint(contractType, "openOrders"),
                           buildQueryParams(<<Entry(symbolKey,
                                                    JStr(resolveSymbol(contractType, symbol)))>>))>>,
                 IF res.msg = OM_ORDER_NOT_FOUND THEN ToolOk(none)
                 ELSE ToolError(RequestFailed))
  ELSE Outcome(<<Request("GET", getEndpoint(contractType, "openOrders"),
                         buildQueryParams(<<Entry(symbolKey,
                                                  JStr(resolveSymbol(contractType, symbol)))>>))>>,
               ToolOk(Reported(contractType, resolveSymbol(contractType, symbol), res.data)))

\* the MCP tool answers OM_ORDER_NOT_FOUND with the text "No open orders ..."
registerGetOpenOrders(params, res) ==
  getOpenOrders(OrDefault(Param(params, contractTypeKey), JStr(linear)).str,
                Param(params, symbolKey).str, JStr(NoOpenOrders), res)

\* the CLI command answers it with { message, orders: [] }
handleGetOpenOrders(params, res) ==
  IF ~IsRequiredString(params, symbolKey) THEN Outcome(<<>>, ToolError(MissingParameter))
  ELSE IF ContractTypeError(params) # "" THEN Outcome(<<>>, ToolError(ContractTypeError(params)))
  ELSE getOpenOrders(getContractType(params).str, Param(params, symbolKey).str,
                     JObj(<<Entry(messageKey, JStr(NoOpenOrders)),
                            Entry(ordersKey, JArr(<<>>))>>),
                     res)

\* get_trades with the code of the answer left unread
getTrades_IgnoresCode(contractType, symbol, limit, res) ==
  IF validateSymbol(contractType, symbol) # NoSymbolError
    THEN Outcome(<<>>, ToolError(validateSymbol(contractType, symbol)))
  ELSE Outcome(<<Request("GET", getEndpoint(contractType, "tradeHistory"),
                         buildQueryParams(<<Entry(symbolKey,
                                                  JStr(resolveSymbol(contractType, symbol))),
                                            Entry(limitKey, limit)>>))>>,
               ToolOk(Reported(contractType, resolveSymbol(contractType, symbol), res.data)))

\* get_trades after its parameters have been read
getTrades(contractType, symbol, limit, res) ==
  IF validateSymbol(contractType, symbol) # NoSymbolError
    THEN Outcome(<<>>, ToolError(validateSymbol(contractType, symbol)))
  ELSE IF res.code # 0
    THEN Outcome(<<Request("GET", getEndpoint(contractType, "tradeHistory"),
                           buildQueryParams(<<Entry(symbolKey,
                                                    JStr(resolveSymbol(contractType, symbol))),
                                              Entry(limitKey, limit)>>))>>,
                 ToolError(RequestFailed))
  ELSE Outcome(<<Request("GET", getEndpoint(contractType, "tradeHistory"),
                         buildQueryParams(<<Entry(symbolKey,
                                                  JStr(resolveSymbol(contractType, symbol))),
                                            Entry(limitKey, limit)>>))>>,
               ToolOk(Reported(contractType, resolveSymbol(contractType, symbol), res.data)))

registerGetTrades(params, res) ==
  getTrades(OrDefault(Param(params, contractTypeKey), JStr(linear)).str,
            Param(params, symbolKey).str,
            OrDefault(Param(params, limitKey), JNum(Int2Num(50))), res)

handleGetTrades(params, res) ==
  IF ~IsRequiredString(params, symbolKey) THEN Outcome(<<>>, ToolError(MissingParameter))
  ELSE IF optNumber(params, limitKey, JNum(Int2Num(50))).failed
    THEN Outcome(<<>>, ToolError(MustBeNumber))
  ELSE IF ContractTypeError(params) # "" THEN Outcome(<<>>, ToolError(ContractTypeError(params)))
  ELSE getTrades(getContractType(params).str, Param(params, symbolKey).str,
                 optNumber(params, limitKey, JNum(Int2Num(50))).value, res)

\* { symbol: resolved }, then the order identifiers that were given, then
\* posSide for linear; idKey is clOrdID for cancel_order and origClOrdID for
\* amend_order
OrderIdQuery(contractType, resolved, idKey, o) ==
  <<Entry(symbolKey, JStr(resolved))>>
  \o (IF IsFalsy(o.orderID) THEN <<>> ELSE <<Entry(orderIDKey, o.orderID)>>)
  \o (IF IsFalsy(o.clOrdID) THEN <<>> ELSE <<Entry(idKey, o.clOrdID)>>)
  \o (IF ~isInverse(contractType) /\ ~isSpot(contractType)
        THEN <<Entry(posSideKey, o.posSide)>>
      ELSE <<>>)

\* cancel_order after its parameters have been read
cancelOrder(contractType, symbol, o, res) ==
  IF IsFalsy(o.orderID) /\ IsFalsy(o.clOrdID) THEN Outcome(<<>>, ToolError(NoOrderId))
  ELSE IF validateSymbol(contractType, symbol) # NoSymbolError
    THEN Outcome(<<>>, ToolError(validateSymbol(contractType, symbol)))
  ELSE IF res.code # 0
    THEN Outcome(<<Request("DELETE", getEndpoint(contractType, "cancelOrder"),
                           buildQueryParams(OrderIdQuery(contractType,
                                                         resolveSymbol(contractType, symbol),
                                                         clOrdIDKey, o)))>>,
                 ToolError(RequestFailed))
  ELSE Outcome(<<Request("DELETE", getEndpoint(contractType, "cancelOrder"),
                         buildQueryParams(OrderIdQuery(contractType,
                                                       resolveSymbol(contractType, symbol),
                                                       clOrdIDKey, o)))>>,
               ToolOk(Reported(contractType, resolveSymbol(contractType, symbol), res.data)))

registerCancelOrder(params, res) ==
  cancelOrder(OrDefault(Param(params, contractTypeKey), JStr(linear)).str,
              Param(params, symbolKey).str,
              [ orderID |-> Param(params, orderIDKey),
                clOrdID |-> Param(params, clOrdIDKey),
                posSide |-> OrDefault(Param(params, posSideKey), JStr(Merged)) ],
              res)

handleCancelOrder(params, res) ==
  IF ~IsRequiredString(params, symbolKey) THEN Outcome(<<>>, ToolError(MissingParameter))
  ELSE IF ContractTypeError(params) # "" THEN Outcome(<<>>, ToolError(ContractTypeError(params)))
  ELSE cancelOrder(getContractType(params).str, Param(params, symbolKey).str,
                   [ orderID |-> optString(params, orderIDKey),
                     clOrdID |-> optString(params, clOrdIDKey),
                     posSide |-> OrDefault(Param(params, posSideKey), JStr(Merged)) ],
                   res)

\* the branches of amend_order that fill params after the identifiers
amendOrderQuery_ScalesLinear(contractType, resolved, o) ==
  IF ~isLoaded THEN Build(<<>>, NotLoadedAmend)
  ELSE
    Assign(<<SetScaled(priceEp, o.price, scalePrice(resolved, o.price.str)),
             IF isSpot(contractType)
               THEN SetScaled(baseQtyEvKey, o.orderQty, scaleValue(resolved, o.orderQty.str))
             ELSE Assignment(o.orderQty.t # "undef", orderQtyKey, "",
                             JNum(ParseInt(o.orderQty.str)))>>,
           1,
           Build(OrderIdQuery(contractType, resolved, origClOrdIDKey, o), ""))

amendOrderQuery(contractType, resolved, o) ==
  IF isInverse(contractType) \/ isSpot(contractType) THEN
    IF ~isLoaded THEN Build(<<>>, NotLoadedAmend)
    ELSE
      Assign(<<SetScaled(priceEp, o.price, scalePrice(resolved, o.price.str)),
               IF isSpot(contractType)
                 THEN SetScaled(baseQtyEvKey, o.orderQty, scaleValue(resolved, o.orderQty.str))
               ELSE Assignment(o.orderQty.t # "undef", orderQtyKey, "",
                               JNum(ParseInt(o.orderQty.str)))>>,
             1,
             Build(OrderIdQuery(contractType, resolved, origClOrdIDKey, o), ""))
  ELSE
    Assign(<<SetDefined(priceRpKey, o.price),
             SetDefined(orderQtyRqKey, o.orderQty)>>,
           1,
           Build(OrderIdQuery(contractType, resolved, origClOrdIDKey, o), ""))

\* the request of amend_order and the handling of its answer; b is params
\* as filled
amendOrderSend(contractType, resolved, b, res) ==
  IF b.threw # "" THEN Outcome(<<>>, ToolError(b.threw))
  ELSE IF res.code # 0
    THEN Outcome(<<Request("PUT", getEndpoint(contractType, "amendOrder"),
                           buildQueryParams(b.query))>>,
                 ToolError(RequestFailed))
  ELSE Outcome(<<Request("PUT", getEndpoint(contractType, "amendOrder"),
                         buildQueryParams(b.query))>>,
               ToolOk(Reported(contractType, resolved, res.data)))

\* amend_order with the symbol as typed in place of the resolved one
amendOrder_Unresolved(contractType, symbol, o, res) ==
  IF IsFalsy(o.orderID) /\ IsFalsy(o.clOrdID) THEN Outcome(<<>>, ToolError(NoOrderId))
  ELSE IF validateSymbol(contractType, symbol) # NoSymbolError
    THEN Outcome(<<>>, ToolError(validateSymbol(contractType, symbol)))
  ELSE amendOrderSend(contractType, symbol, amendOrderQuery(contractType, symbol, o), res)

\* amend_order after its parameters have been read
amendOrder(contractType, symbol, o, res) ==
  IF IsFalsy(o.orderID) /\ IsFalsy(o.clOrdID) THEN Outcome(<<>>, ToolError(NoOrderId))
  ELSE IF validateSymbol(contractType, symbol) # NoSymbolError
    THEN Outcome(<<>>, ToolError(validateSymbol(contractType, symbol)))
  ELSE amendOrderSend(contractType, resolveSymbol(contractType, symbol),
                      amendOrderQuery(contractType, resolveSymbol(contractType, symbol), o),
                      res)

registerAmendOrder(params, res) ==
  amendOrder(OrDefault(Param(params, contractTypeKey), JStr(linear)).str,
             Param(params, symbolKey).str,
             [ orderID  |-> Param(params, orderIDKey),
               clOrdID  |-> Param(params, origClOrdIDKey),
               price    |-> Param(params, price),
               orderQty |-> Param(params, orderQtyKey),
               posSide  |-> OrDefault(Param(params, posSideKey), JStr(Merged)) ],
             res)

handleAmendOrder(params, res) ==
  IF ~IsRequiredString(params, symbolKey) THEN Outcome(<<>>, ToolError(MissingParameter))
  ELSE IF ContractTypeError(params) # "" THEN Outcome(<<>>, ToolError(ContractTypeError(params)))
  ELSE amendOrder(getContractType(params).str, Param(params, symbolKey).str,
                  [ orderID  |-> optString(params, orderIDKey),
                    clOrdID  |-> optString(params, origClOrdIDKey),
                    price    |-> optString(params, price),
                    orderQty |-> optString(params, orderQtyKey),
                    posSide  |-> OrDefault(Param(params, posSideKey), JStr(Merged)) ],
                  res)

\* ------------------------------------------------------------------------
\* Command line: parseCliArgs and the param-helpers module
\* ------------------------------------------------------------------------
\* /^-?\d+$/
IsIntegerText(value) ==
  LET digits == IF StartsWith(value, <<"-">>) THEN SliceFrom(value, 1) ELSE value
  IN digits # <<>> /\ \A i \in 1..Len(digits) : IsDigit(digits[i])

coerce(value) ==
  IF value = TrueText THEN JBool(TRUE)
  ELSE IF value = FalseText THEN JBool(FALSE)
  ELSE IF IsIntegerText(value) THEN JNum(NumberOf(value))
  ELSE JStr(value)

\* "--" + key
Flag(key) == <<"-", "-">> \o key

IsFlag(arg) == StartsWith(arg, <<"-", "-">>)

\* JSON mode: a single argument that starts with "{" goes to JSON.parse,
\* which is not modelled; the command lines below are all in flag mode
IsJsonMode(args) == Len(args) = 1 /\ StartsWith(args[1], <<"{">>)

\* the while loop of flag mode, from position i on
RECURSIVE ParseFlags(_, _, _)
ParseFlags(args, i, result) ==
  IF i > Len(args) THEN result
  ELSE IF ~IsFlag(args[i]) THEN ParseFlags(args, i + 1, result)
  ELSE IF i + 1 > Len(args) THEN ParseFlags(args, i + 1, SetKey(result, SliceFrom(args[i], 2), JBool(TRUE)))
  ELSE IF IsFlag(args[i + 1])
    THEN ParseFlags(args, i + 1, SetKey(result, SliceFrom(args[i], 2), JBool(TRUE)))
  ELSE ParseFlags(args, i + 2, SetKey(result, SliceFrom(args[i], 2), coerce(args[i + 1])))

\* parseCliArgs in flag mode
parseCliArgs(args) == IF Len(args) = 0 THEN <<>> ELSE ParseFlags(args, 1, <<>>)

RetUndefined == [st |-> "undefined", num |-> NaN, str |-> <<>>, err |-> ""]

\* requireString of param-helpers.ts (cli.ts has its own, IsRequiredString)
paramHelpers_requireString(params, key) ==
  LET v == Param(params, key)
  IN IF v.t = "num" THEN RetStr(NumToString(v.num))
     ELSE IF v.t # "str" THEN RetThrow(MissingParameter)
     ELSE IF v.str = <<>> THEN RetThrow(MissingParameter)
     ELSE RetStr(v.str)

\* optString of param-helpers.ts
paramHelpers_optString(params, key) ==
  LET v == Param(params, key)
  IN IF v.t = "str" THEN RetStr(v.str)
     ELSE IF v.t = "num" THEN RetStr(NumToString(v.num))
     ELSE RetUndefined

\* ------------------------------------------------------------------------
\* Inputs
\* ------------------------------------------------------------------------
\* bound on the number of entries of a products array
MaxProducts == 2

\* bound on the number of fields of a generated response object
MaxFields == 2

\* sequences over S of length at most n
RECURSIVE SeqsUpTo(_, _)
SeqsUpTo(S, n) ==
  IF n = 0 THEN {<<>>}
  ELSE LET shorter == SeqsUpTo(S, n - 1)
       IN shorter \cup {Append(q, x) : q \in shorter, x \in S}

CurrencyLists ==
  { NoList,
    List(<<RawCurrency(BTC, 8), RawCurrency(USDT, 6)>>),
    List(<<RawCurrency(BTC, 8), BadCurrency>>),
    List(<<RawCurrency(BTC, Absent)>>) }

ProductItems ==
  { RawProduct(BTCUSD, "Perpetual", "Listed", BTC, 4, 8, 1),
    RawProduct(BTCUSD, "Perpetual", "Delisted", BTC, 2, 2, 1),
    RawProduct(sBTCUSDT, "Spot", "Listed", USDT, 8, 8, Absent),
    RawProduct(sBTCUSDT, "Spot", "Delisted", USDT, 2, 2, Absent),
    RawProduct(ETHUSD, "Perpetual", "Listed", ETH, Absent, 8, Absent),
    RawProduct(ETHUSD, "Future", "Listed", ETH, 4, 8, 1),
    BadProduct }

ProductLists == {NoList} \cup {List(q) : q \in SeqsUpTo(ProductItems, MaxProducts)}

ProductV2Lists ==
  { NoList,
    List(<<RawProduct(BTCUSDT, "PerpetualV2", "Listed", USDT, 0, 0, Absent)>>),
    List(<<RawProduct(BTCUSDT, "PerpetualV2", "Listed", USDT, Absent, 4, Absent)>>),
    List(<<RawProduct(BTCUSDT, "PerpetualV2", "Delisted", USDT, 4, 4, Absent)>>),
    List(<<RawProduct(BTCUSDT, "PerpetualV2", "Listed", USDT, 0, 0, Absent), BadProduct>>) }

FailedFetches ==
  { Payload("reject", NoList, NoList, NoList),
    Payload("code", NoList, NoList, NoList),
    Payload("nodata", NoList, NoList, NoList) }

\* every metadata document of the load specification
LoadPayloads ==
  FailedFetches \cup
  { Payload("ok", c, ps, v2) : c \in CurrencyLists, ps \in ProductLists, v2 \in ProductV2Lists }

\* the documents the scaler specification starts from: a failed fetch, a
\* complete document, a document without currencies, one with an exponent
\* missing, and one that breaks off after the first product
ScalerPayloads ==
  { Payload("reject", NoList, NoList, NoList), Payload("ok", List(<<RawCurrency(BTC, 8), RawCurrency(USDT, 6)>>),
            List(<<RawProduct(BTCUSD, "Perpetual", "Listed", BTC, 4, 8, 1),
                   RawProduct(sBTCUSDT, "Spot", "Listed", USDT, 8, 8, Absent)>>),
            List(<<RawProduct(BTCUSDT, "PerpetualV2", "Listed", USDT, 0, 0, Absent)>>)),
    Payload("ok", NoList,
            List(<<RawProduct(BTCUSD, "Perpetual", "Listed", BTC, 4, 8, 1),
                   RawProduct(sBTCUSDT, "Spot", "Delisted", USDT, 2, 2, Absent)>>),
            NoList),
    Payload("ok", List(<<RawCurrency(BTC, 8), RawCurrency(USDT, 6)>>),
            List(<<RawProduct(sBTCUSDT, "Spot", "Listed", USDT, 8, 8, Absent),
                   RawProduct(ETHUSD, "Perpetual", "Listed", ETH, Absent, 8, Absent)>>),
            NoList),
    Payload("ok", List(<<RawCurrency(BTC, 8), RawCurrency(USDT, 6)>>),
            List(<<RawProduct(BTCUSD, "Perpetual", "Listed", BTC, 4, 8, 1), BadProduct>>),
            NoList) }

Symbols == {BTCUSD, BTCUSDT, sBTCUSDT, ETHUSD, UNKNOWN}

Currencies == {BTC, USDT, ETH}

\* decimal strings handed to the scale functions
Decimals ==
  { <<"0">>,
    <<"1">>,
    <<"1", "0">>,
    <<"1", "0", "0">>,
    <<"0", ".", "5">>,
    <<"1", ".", "5">>,
    <<"1", ".", "5", "0">>,
    <<"2", ".", "5">>,
    <<"-", "2", ".", "5">>,
    <<"-", "1", ".", "5">>,
    <<"0", ".", "2", "5">>,
    <<"5", "0", "0", "0", "0", ".", "5">>,
    <<"9", "5", "0", "0", "0", ".", "5", "0">>,
    <<"0", ".", "0", "0", "0", "1">>,
    <<"0", ".", "0", "0", "0", "0", "1">>,
    <<"0", ".", "0", "0", "0", "0", "0", "1">>,
    <<"0", ".", "0", "0", "0", "0", "0", "0", "1">>,
    <<"0", ".", "0", "0", "0", "0", "0", "0", "1", "5">>,
    <<"0", ".", "0", "0", "0", "0", "0", "0", "0", "1">> }

\* scaled integers handed to the unscale functions
ScaledInts == {0, 1, 10, 15, 123, 1500, -1500, 500005000, 150000000, 1000000000}

\* number of digits after the decimal point of a decimal string
FracDigits(d) ==
  LET dots == {i \in 1..Len(d) : d[i] = "."}
  IN IF dots = {} THEN 0 ELSE Len(d) - (CHOOSE i \in dots : TRUE)

\* the product parseFloat(decimal) * factor stays within the modelled range
Fits(decimal, factor) ==
  LET x == ParseFloat(decimal)
  IN IF x.nan \/ factor.nan THEN TRUE
     ELSE LET k == Log10(factor.m)
          IN IF x.e >= k THEN Abs(x.m) <= MaxMagnitude
             ELSE Abs(x.m) <= MaxMagnitude \div Pow10(k - x.e)

\* bound on the number of fields of the objects nested inside other values
MaxNestedFields == 1

Keys == {price, priceEp, priceEr, qtyEv}

LeafValues == {JNum(Int2Num(500005000)), JNull, JStr(<<"x">>)}

Scalars == LeafValues \cup {JUndef, JBool(TRUE), JNum(Int2Num(15))}

KeysOf(es) == {es[i].k : i \in 1..Len(es)}

\* entry lists with pairwise different keys and at most n entries
RECURSIVE EntryLists(_)
EntryLists(n) ==
  IF n = 0 THEN {<<>>}
  ELSE LET shorter == EntryLists(n - 1)
       IN shorter \cup
          UNION { {Append(es, Entry(k, v)) : k \in Keys \ KeysOf(es), v \in LeafValues}
                  : es \in {x \in shorter : Len(x) = n - 1} }

FlatObjects == {JObj(es) : es \in EntryLists(MaxFields)}

NestedObjects == {JObj(es) : es \in EntryLists(MaxNestedFields)}

\* everything handed to convertResponse
Responses ==
  Scalars \cup FlatObjects
  \cup {JObj(<<Entry(side, o), Entry(priceEp, JNum(Int2Num(15)))>>) : o \in NestedObjects}
  \cup {JArr(<<o, JNull, JNum(Int2Num(15))>>) : o \in NestedObjects}
  \cup {JObj(<<Entry(rows, JArr(<<o, o>>))>>) : o \in NestedObjects}
  \cup {JArr(<<>>)}

\* ------------------------------------------------------------------------
\* Inputs of the tools
\* ------------------------------------------------------------------------
\* values of PHEMEX_MAX_ORDER_VALUE: not set, empty, "10", "1000"
EnvValues ==
  {JUndef, JStr(<<>>), JStr(<<"1", "0">>), JStr(<<"1", "0", "0", "0">>)}

\* an entry list without the entries whose value is undefined
IsGiven(entry) == entry.v.t # "undef"

Given(es) == SelectSeq(es, IsGiven)

OrderShape(sd, ordType, p, stopPx, triggerType, takeProfit, stopLoss, reduceOnly) ==
  [side |-> sd, ordType |-> ordType, price |-> p, stopPx |-> stopPx,
   triggerType |-> triggerType, takeProfit |-> takeProfit, stopLoss |-> stopLoss,
   reduceOnly |-> reduceOnly]

OrderShapes ==
  { OrderShape(JStr(Buy), JStr(Market), JUndef, JUndef, JUndef, JUndef, JUndef, JBool(FALSE)),
    OrderShape(JStr(Buy), JStr(Limit), JStr(<<"1", "0">>), JUndef, JUndef, JUndef, JUndef,
               JBool(FALSE)),
    OrderShape(JStr(Sell), JStr(Limit), JStr(<<"1", ".", "5">>), JUndef, JUndef,
               JStr(<<"1">>), JStr(<<"1", "0">>), JBool(TRUE)),
    OrderShape(JStr(Buy), JStr(StopLimit), JStr(<<"1", "0">>), JStr(<<"1", ".", "5">>),
               JStr(ByMarkPrice), JUndef, JUndef, JBool(FALSE)) }

\* shapes only the command line can produce: a price that arrives as a
\* number, reduceOnly as text, no side
CliOrderShapes ==
  { OrderShape(JStr(Buy), JStr(Limit), JNum(Int2Num(10)), JUndef, JUndef, JUndef, JUndef,
               JStr(TrueText)),
    OrderShape(JUndef, JStr(Market), JUndef, JUndef, JUndef, JUndef, JUndef, JUndef) }

OrderSymbols == {BTCUSD, BTCUSDT, sBTCUSDT}

Quantities == {<<"1", "0">>, <<"0", ".", "0", "1">>}

OrderParams(symbol, orderQty, shape, contractType, qtyType, timeInForce, posSide) ==
  Given(<<Entry(symbolKey, JStr(symbol)), Entry(side, shape.side),
          Entry(orderQtyKey, orderQty), Entry(ordTypeKey, shape.ordType),
          Entry(price, shape.price), Entry(timeInForceKey, timeInForce),
          Entry(posSideKey, posSide), Entry(stopPxKey, shape.stopPx),
          Entry(triggerTypeKey, shape.triggerType), Entry(reduceOnlyKey, shape.reduceOnly),
          Entry(takeProfitKey, shape.takeProfit), Entry(stopLossKey, shape.stopLoss),
          Entry(contractTypeKey, contractType), Entry(qtyTypeKey, qtyType)>>)

\* parameter objects that pass the schema of the MCP tool, defaults filled
\* in; spot orders come by base and by quote
McpPlaceOrderParams ==
  { OrderParams(symbol, JStr(q), shape, JStr(ct), JStr(qt), JStr(GoodTillCancel), JStr(Merged)) :
      symbol \in OrderSymbols, q \in Quantities, shape \in OrderShapes,
      ct \in ContractTypes, qt \in {ByBase} }
  \cup
  { OrderParams(symbol, JStr(q), shape, JStr(spot), JStr(ByQuote), JStr(GoodTillCancel),
                JStr(Merged)) :
      symbol \in {BTCUSDT}, q \in Quantities, shape \in OrderShapes }

\* phemex-cli place_order command lines: integer quantity and price on the
\* inverse market, a decimal quantity, and a bare --reduceOnly
PlaceOrderCommandLines ==
  { <<Flag(symbolKey), BTCUSD, Flag(contractTypeKey), inverse, Flag(side), Buy,
      Flag(orderQtyKey), <<"1">>, Flag(ordTypeKey), Limit, Flag(price), <<"1", "0">>>>,
    <<Flag(symbolKey), BTCUSDT, Flag(side), Buy, Flag(orderQtyKey), <<"0", ".", "0", "1">>,
      Flag(ordTypeKey), Market>>,
    <<Flag(symbolKey), BTCUSDT, Flag(side), Sell, Flag(orderQtyKey), <<"1", ".", "5">>,
      Flag(ordTypeKey), Market, Flag(reduceOnlyKey)>> }

\* texts typed after a flag: integers with and without sign and leading
\* zeros, decimals, and texts that are neither
TypedValues ==
  { sign \o digits \o fraction :
      sign \in {<<>>, <<"-">>},
      digits \in {<<"0">>, <<"1">>, <<"1", "0">>, <<"0", "0", "7">>, <<"1", "0", "0", "0", "0", "0">>},
      fraction \in {<<>>, <<".", "5">>, <<".", "5", "0">>, <<".">>} }
  \cup {TrueText, FalseText, BTCUSDT, <<"1", "e", "3">>, Flag(side)}

\* the flags the values are typed after
TypedKeys == {orderQtyKey, price, <<"a", "m", "o", "u", "n", "t">>}

\* parameter objects of the command line: nothing is filled in beforehand
CliPlaceOrderParams ==
  { parseCliArgs(args) : args \in PlaceOrderCommandLines }
  \cup
  { OrderParams(symbol, q, shape, ct, JUndef, JUndef, JUndef) :
      symbol \in {BTCUSD, BTCUSDT},
      q \in {JStr(<<"1", "0">>), JNum(Int2Num(10))},
      shape \in OrderShapes \cup CliOrderShapes,
      ct \in {JUndef, JStr(inverse), JStr(spot), JStr(<<"s", "w", "a", "p">>)} }
  \cup
  { OrderParams(BTCUSDT, JStr(<<"1", "0">>), shape, JStr(spot), JStr(ByQuote), JUndef, JUndef) :
      shape \in OrderShapes \cup CliOrderShapes }

\* symbols handed to the router: with and without the spot prefix, with
\* each settlement suffix, in either case, and without any
RouterSymbols ==
  { p \o b \o x :
      p \in {<<>>, <<"s">>, <<"s", "s">>, <<"S">>},
      b \in {<<>>, BTC},
      x \in {<<>>, USD, USDT, <<"U", "S", "D", "C">>, <<"u", "s", "d">>} }

\* answers of the exchange to an order request
OrderResponses ==
  { PhemexResponse(0, JObj(<<Entry(priceEp, JNum(Int2Num(15))), Entry(price, JNull)>>)),
    PhemexResponse(11001, JNull) }

\* ------------------------------------------------------------------------
\* Inputs of the other tools
\* ------------------------------------------------------------------------
\* a direction outside the two of the schema
futures_to_futures ==
  <<"f", "u", "t", "u", "r", "e", "s", "_", "t", "o", "_", "f", "u", "t", "u", "r", "e", "s">>

\* transfers of a known and of an unknown currency, in the two directions,
\* in a third one, and without a direction
TransferParams ==
  { Given(<<Entry(currencyKey, JStr(c)), Entry(amountKey, JStr(a)), Entry(directionKey, d)>>) :
      c \in {BTC, ETH},
      a \in {<<"1", ".", "5">>, <<"0", ".", "0", "1">>},
      d \in {JStr(spot_to_futures), JStr(futures_to_spot), JStr(futures_to_futures), JUndef} }

TransferResponses ==
  { PhemexResponse(0, JObj(<<Entry(amountEvKey, JNum(Int2Num(150000000))),
                             Entry(statusKey, JNum(Int2Num(10)))>>)),
    PhemexFailure(30018, "") }

\* market types as the MCP schema lets them through, and as the command
\* line can hold them: left out, or a text that is none of the three
McpContractTypes == {JStr(ct) : ct \in ContractTypes}

CliContractTypes == McpContractTypes \cup {JUndef, JStr(<<"s", "w", "a", "p">>)}

AccountParams(contractTypes) ==
  { Given(<<Entry(currencyKey, c), Entry(contractTypeKey, ct)>>) :
      c \in {JStr(USDT), JStr(BTC), JUndef}, ct \in contractTypes }

BTCFR8H == <<".", "B", "T", "C", "F", "R", "8", "H">>

FundingRateParams(limits, contractTypes) ==
  { Given(<<Entry(symbolKey, JStr(BTCFR8H)), Entry(limitKey, l), Entry(contractTypeKey, ct)>>) :
      l \in limits, ct \in contractTypes }

LeverageParams(leverages, contractTypes) ==
  { Given(<<Entry(symbolKey, JStr(symbol)), Entry(leverageKey, l), Entry(contractTypeKey, ct)>>) :
      symbol \in {BTCUSD, BTCUSDT, ETHUSD}, l \in leverages, ct \in contractTypes }

Leverages == {JNum(Int2Num(5)), JNum(Int2Num(-2))}

PosModeParams(contractTypes) ==
  { Given(<<Entry(symbolKey, JStr(symbol)), Entry(targetPosModeKey, JStr(mode)),
            Entry(contractTypeKey, ct)>>) :
      symbol \in {BTCUSD, BTCUSDT}, mode \in {OneWay, Hedged}, ct \in contractTypes }

\* answers of the exchange to these tools
AccountResponses ==
  { PhemexResponse(0, JObj(<<Entry(leverageErKey, JNum(Int2Num(500000000)))>>)),
    PhemexFailure(10002, "") }

SymbolParams(contractTypes) ==
  { Given(<<Entry(symbolKey, JStr(symbol)), Entry(contractTypeKey, ct)>>) :
      symbol \in OrderSymbols, ct \in contractTypes }

TradesParams(limits, contractTypes) ==
  { Given(<<Entry(symbolKey, JStr(symbol)), Entry(limitKey, l), Entry(contractTypeKey, ct)>>) :
      symbol \in OrderSymbols, l \in limits, ct \in contractTypes }

\* an order identifier as a text, and as the number the command line makes
\* of a text of digits
OrderIdText == JStr(<<"7", "a">>)

OrderIdNumber == JNum(Int2Num(7))

CancelParams(ids, contractTypes) ==
  { Given(<<Entry(symbolKey, JStr(symbol)), Entry(orderIDKey, id), Entry(clOrdIDKey, cl),
            Entry(contractTypeKey, ct)>>) :
      symbol \in OrderSymbols, id \in ids, cl \in {JUndef, OrderIdText}, ct \in contractTypes }

\* amendments of the price, of the quantity, of both and of neither
AmendParams(ids, contractTypes) ==
  { Given(<<Entry(symbolKey, JStr(symbol)), Entry(orderIDKey, id), Entry(price, p),
            Entry(orderQtyKey, q), Entry(contractTypeKey, ct)>>) :
      symbol \in OrderSymbols \cup {ETHUSD},
      id \in ids,
      p \in {JUndef, JStr(<<"1", ".", "5">>)},
      q \in {JUndef, JStr(<<"1", "0">>), JStr(<<"0", ".", "0", "1">>)},
      ct \in contractTypes }

\* answers to get_open_orders: orders, a refusal, and the answer of the
\* Coin-M API when there are no open orders
OpenOrdersResponses == OrderResponses \cup {PhemexFailure(10002, OM_ORDER_NOT_FOUND)}

\* answers of the market-data API: a result, or an error
TickerResponses ==
  { PhemexMdResponse("", JObj(<<Entry(priceEp, JNum(Int2Num(15)))>>)),
    PhemexMdResponse("invalid symbol", JNull) }

\* ------------------------------------------------------------------------
\* Calls
\* ------------------------------------------------------------------------
Call(op, key, dec, n, data) == [op |-> op, key |-> key, dec |-> dec, n |-> n, data |-> data]

NoCall == Call("none", <<>>, <<>>, 0, JNull)

RetBool(b)  == [st |-> "boolean", num |-> NaN, str |-> <<>>, err |-> "", json |-> JBool(b)]
RetJson(j)  == [st |-> "json", num |-> NaN, str |-> <<>>, err |-> "", json |-> j]

\* a ContractRouter call: getEndpoint(contractType, operation) gives a path,
\* resolveSymbol(contractType, symbol) a symbol, validateSymbol(contractType,
\* symbol) a message or null (the empty message); st tells a return from a throw
Routed(op, contractType, operation, symbol, st, path, resolved, message) ==
  [op |-> op, contractType |-> contractType, operation |-> operation, symbol |-> symbol,
   st |-> st, path |-> path, resolved |-> resolved, message |-> message]

NoRoute == Routed("none", <<>>, "", <<>>, "none", "", <<>>, "")

\* a call's result in the shape of the ret variable
AsRet(r) == [st |-> r.st, num |-> r.num, str |-> r.str, err |-> r.err, json |-> JNull]

\* ------------------------------------------------------------------------
\* Actions
\* ------------------------------------------------------------------------
\* a call made while init has not returned
Idle_BeforeInit == call = NoCall

\* Both entry points await productCache.init() before a handler can run.
\* One call is observed per behaviour: the calls are read-only on the cache,
\* so a second call would start from the same cache as the first.
Idle == phase = "ready" /\ call = NoCall

\* new ProductInfoCache(baseUrl), and no call made yet
Constructed ==
  /\ phase = "constructed"
  /\ payload = NoPayload
  /\ cache = EmptyMap
  /\ loaded = FALSE
  /\ currencyScales = EmptyMap
  /\ call = NoCall
  /\ ret = AsRet(RetNone)
  /\ requests = <<>>
  /\ responses = <<>>
  /\ routed = NoRoute

\* a start without PHEMEX_MAX_ORDER_VALUE in the environment
Init ==
  /\ Constructed
  /\ env = JUndef
  /\ maxOrderValue = ClientMaxOrderValue(ConfigMaxOrderValue(env))

\* a start with each of the generated environments
InitTools ==
  /\ Constructed
  /\ env \in EnvValues
  /\ maxOrderValue = ClientMaxOrderValue(ConfigMaxOrderValue(env))

\* await productCache.init() at start-up, against the scaler documents
InitScaler == \E doc \in ScalerPayloads : init(doc)

\* await productCache.init() at start-up, against every generated document
InitLoad == \E doc \in LoadPayloads : init(doc)

IsLoaded ==
  /\ Idle
  /\ call' = Call("isLoaded", <<>>, <<>>, 0, JNull)
  /\ ret' = RetBool(isLoaded)
  /\ UNCHANGED <<routed, cacheVars, configVars, requests, responses>>

Get ==
  \E symbol \in Symbols :
    /\ Idle
    /\ call' = Call("get", symbol, <<>>, 0, JNull)
    /\ ret' = RetBool(get(symbol))
    /\ UNCHANGED <<routed, cacheVars, configVars, requests, responses>>

ScalePrice ==
  \E symbol \in Symbols, decimal \in Decimals :
    /\ Idle
    /\ MapHas(cache, symbol) => Fits(decimal, cache[symbol].priceScale)
    /\ call' = Call("scalePrice", symbol, decimal, 0, JNull)
    /\ ret' = AsRet(scalePrice(symbol, decimal))
    /\ UNCHANGED <<routed, cacheVars, configVars, requests, responses>>

ScaleRatio ==
  \E symbol \in Symbols, decimal \in Decimals :
    /\ Idle
    /\ MapHas(cache, symbol) => Fits(decimal, cache[symbol].ratioScale)
    /\ call' = Call("scaleRatio", symbol, decimal, 0, JNull)
    /\ ret' = AsRet(scaleRatio(symbol, decimal))
    /\ UNCHANGED <<routed, cacheVars, configVars, requests, responses>>

ScaleValue ==
  \E symbol \in Symbols, decimal \in Decimals :
    /\ Idle
    /\ MapHas(cache, symbol) => Fits(decimal, cache[symbol].valueScale)
    /\ call' = Call("scaleValue", symbol, decimal, 0, JNull)
    /\ ret' = AsRet(scaleValue(symbol, decimal))
    /\ UNCHANGED <<routed, cacheVars, configVars, requests, responses>>

UnscalePrice ==
  \E symbol \in Symbols, scaled \in ScaledInts :
    /\ Idle
    /\ call' = Call("unscalePrice", symbol, <<>>, scaled, JNull)
    /\ ret' = AsRet(unscalePrice(symbol, Int2Num(scaled)))
    /\ UNCHANGED <<routed, cacheVars, configVars, requests, responses>>

ScaleCurrencyAmount ==
  \E currency \in Currencies, decimal \in Decimals :
    /\ Idle
    /\ MapHas(currencyScales, currency) => Fits(decimal, currencyScales[currency])
    /\ call' = Call("scaleCurrencyAmount", currency, decimal, 0, JNull)
    /\ ret' = AsRet(scaleCurrencyAmount(currency, decimal))
    /\ UNCHANGED <<routed, cacheVars, configVars, requests, responses>>

UnscaleCurrencyAmount ==
  \E currency \in Currencies, amountEv \in ScaledInts :
    /\ Idle
    /\ call' = Call("unscaleCurrencyAmount", currency, <<>>, amountEv, JNull)
    /\ ret' = AsRet(unscaleCurrencyAmount(currency, Int2Num(amountEv)))
    /\ UNCHANGED <<routed, cacheVars, configVars, requests, responses>>

ConvertResponse ==
  \E symbol \in {BTCUSD, sBTCUSDT, UNKNOWN}, data \in Responses :
    /\ Idle
    /\ call' = Call("convertResponse", symbol, <<>>, 0, data)
    /\ ret' = RetJson(convertResponse(symbol, data))
    /\ UNCHANGED <<routed, cacheVars, configVars, requests, responses>>

\* the place_order tool of the MCP server, with the exchange's answer
PlaceOrderMcp ==
  \E params \in McpPlaceOrderParams, res \in OrderResponses :
    /\ Idle
    /\ call' = Call("mcp.place_order", <<>>, <<>>, 0, JObj(params))
    /\ ret' = registerPlaceOrder(params, res).result
    /\ requests' = requests \o registerPlaceOrder(params, res).sent
    /\ responses' = responses \o Answered(registerPlaceOrder(params, res), res)
    /\ UNCHANGED <<routed, cacheVars, configVars>>

\* phemex-cli place_order, with the exchange's answer
PlaceOrderCli ==
  \E params \in CliPlaceOrderParams, res \in OrderResponses :
    /\ Idle
    /\ call' = Call("cli.place_order", <<>>, <<>>, 0, JObj(params))
    /\ ret' = handlePlaceOrder(params, res).result
    /\ requests' = requests \o handlePlaceOrder(params, res).sent
    /\ responses' = responses \o Answered(handlePlaceOrder(params, res), res)
    /\ UNCHANGED <<routed, cacheVars, configVars>>

\* ContractRouter's methods are static and read only the endpoint table:
\* they are called on a freshly started process
Unrouted == Constructed

GetEndpoint ==
  \E contractType \in ContractTypes, operation \in Operations :
    /\ Unrouted
    /\ routed' = Routed("getEndpoint", contractType, operation, <<>>, "return",
                        getEndpoint(contractType, operation), <<>>, "")
    /\ UNCHANGED <<cacheVars, configVars, call, ret, requests, responses>>

ResolveSymbol ==
  \E contractType \in ContractTypes, symbol \in RouterSymbols :
    /\ Unrouted
    /\ routed' = Routed("resolveSymbol", contractType, "", symbol, "return", "",
                        resolveSymbol(contractType, symbol), "")
    /\ UNCHANGED <<cacheVars, configVars, call, ret, requests, responses>>

ValidateSymbol ==
  \E contractType \in ContractTypes, symbol \in RouterSymbols :
    /\ Unrouted
    /\ routed' = Routed("validateSymbol", contractType, "", symbol, "return", "", <<>>,
                        validateSymbol(contractType, symbol))
    /\ UNCHANGED <<cacheVars, configVars, call, ret, requests, responses>>

\* parseCliArgs(["--key", value]) handed to requireString of param-helpers
RequireString ==
  \E key \in TypedKeys, value \in TypedValues :
    /\ Unrouted
    /\ ~IsJsonMode(<<Flag(key), value>>)
    /\ call' = Call("requireString", key, value, 0, JObj(parseCliArgs(<<Flag(key), value>>)))
    /\ ret' = AsRet(paramHelpers_requireString(parseCliArgs(<<Flag(key), value>>), key))
    /\ UNCHANGED <<routed, cacheVars, configVars, requests, responses>>

\* parseCliArgs(["--key", value]) handed to optString of param-helpers
OptString ==
  \E key \in TypedKeys, value \in TypedValues :
    /\ Unrouted
    /\ ~IsJsonMode(<<Flag(key), value>>)
    /\ call' = Call("optString", key, value, 0, JObj(parseCliArgs(<<Flag(key), value>>)))
    /\ ret' = AsRet(paramHelpers_optString(parseCliArgs(<<Flag(key), value>>), key))
    /\ UNCHANGED <<routed, cacheVars, configVars, requests, responses>>

\* a tool handler runs once with params; res is what the exchange answers
\* if the handler issues its request
Invoked(op, params, res, outcome) ==
  /\ Idle
  /\ call' = Call(op, <<>>, <<>>, 0, JObj(params))
  /\ ret' = outcome.result
  /\ requests' = requests \o outcome.sent
  /\ responses' = responses \o Answered(outcome, res)
  /\ UNCHANGED <<routed, cacheVars, configVars>>

TransferFundsMcp ==
  \E params \in TransferParams, res \in TransferResponses :
    Invoked("mcp.transfer_funds", params, res, registerTransferFunds(params, res))

TransferFundsCli ==
  \E params \in TransferParams, res \in TransferResponses :
    Invoked("cli.transfer_funds", params, res, handleTransferFunds(params, res))

GetAccountMcp ==
  \E params \in AccountParams(McpContractTypes), res \in AccountResponses :
    Invoked("mcp.get_account", params, res, registerGetAccount(params, res))

GetAccountCli ==
  \E params \in AccountParams(CliContractTypes), res \in AccountResponses :
    Invoked("cli.get_account", params, res, handleGetAccount(params, res))

GetPositionsMcp ==
  \E params \in AccountParams(McpContractTypes), res \in AccountResponses :
    Invoked("mcp.get_positions", params, res, registerGetPositions(params, res))

GetPositionsCli ==
  \E params \in AccountParams(CliContractTypes), res \in AccountResponses :
    Invoked("cli.get_positions", params, res, handleGetPositions(params, res))

GetFundingRateMcp ==
  \E params \in FundingRateParams({JNum(Int2Num(20))}, McpContractTypes),
     res \in AccountResponses :
    Invoked("mcp.get_funding_rate", params, res, registerGetFundingRate(params, res))

GetFundingRateCli ==
  \E params \in FundingRateParams({JUndef, JNum(Int2Num(5)), JStr(<<"x">>)}, CliContractTypes),
     res \in AccountResponses :
    Invoked("cli.get_funding_rate", params, res, handleGetFundingRate(params, res))

SetLeverageMcp ==
  \E params \in LeverageParams(Leverages, McpContractTypes), res \in AccountResponses :
    Invoked("mcp.set_leverage", params, res, registerSetLeverage(params, res))

SetLeverageCli ==
  \E params \in LeverageParams(Leverages \cup {JUndef, JStr(<<"2", ".", "5">>), JStr(<<"x">>)},
                               CliContractTypes),
     res \in AccountResponses :
    Invoked("cli.set_leverage", params, res, handleSetLeverage(params, res))

SwitchPosModeMcp ==
  \E params \in PosModeParams(McpContractTypes), res \in AccountResponses :
    Invoked("mcp.switch_pos_mode", params, res, registerSwitchPosMode(params, res))

SwitchPosModeCli ==
  \E params \in PosModeParams(CliContractTypes), res \in AccountResponses :
    Invoked("cli.switch_pos_mode", params, res, handleSwitchPosMode(params, res))

GetTickerMcp ==
  \E params \in SymbolParams(McpContractTypes), res \in TickerResponses :
    Invoked("mcp.get_ticker", params, res, registerGetTicker(params, res))

GetTickerCli ==
  \E params \in SymbolParams(CliContractTypes), res \in TickerResponses :
    Invoked("cli.get_ticker", params, res, handleGetTicker(params, res))

GetOpenOrdersMcp ==
  \E params \in SymbolParams(McpContractTypes), res \in OpenOrdersResponses :
    Invoked("mcp.get_open_orders", params, res, registerGetOpenOrders(params, res))

GetOpenOrdersCli ==
  \E params \in SymbolParams(CliContractTypes), res \in OpenOrdersResponses :
    Invoked("cli.get_open_orders", params, res, handleGetOpenOrders(params, res))

GetTradesMcp ==
  \E params \in TradesParams({JNum(Int2Num(50))}, McpContractTypes), res \in OrderResponses :
    Invoked("mcp.get_trades", params, res, registerGetTrades(params, res))

GetTradesCli ==
  \E params \in TradesParams({JUndef, JNum(Int2Num(5)), JStr(<<"x">>)}, CliContractTypes),
     res \in OrderResponses :
    Invoked("cli.get_trades", params, res, handleGetTrades(params, res))

CancelOrderMcp ==
  \E params \in CancelParams({JUndef, OrderIdText}, McpContractTypes), res \in OrderResponses :
    Invoked("mcp.cancel_order", params, res, registerCancelOrder(params, res))

CancelOrderCli ==
  \E params \in CancelParams({JUndef, OrderIdText, OrderIdNumber}, CliContractTypes),
     res \in OrderResponses :
    Invoked("cli.cancel_order", params, res, handleCancelOrder(params, res))

AmendOrderMcp ==
  \E params \in AmendParams({JUndef, OrderIdText}, McpContractTypes), res \in OrderResponses :
    Invoked("mcp.amend_order", params, res, registerAmendOrder(params, res))

AmendOrderCli ==
  \E params \in AmendParams({JUndef, OrderIdText, OrderIdNumber}, CliContractTypes),
     res \in OrderResponses :
    Invoked("cli.amend_order", params, res, handleAmendOrder(params, res))

\* ------------------------------------------------------------------------
\* Specifications
\* ------------------------------------------------------------------------
\* the scaler: one start-up, then a cache call
Next ==
  \/ InitScaler
  \/ IsLoaded
  \/ Get
  \/ ScalePrice
  \/ ScaleRatio
  \/ ScaleValue
  \/ UnscalePrice
  \/ ScaleCurrencyAmount
  \/ UnscaleCurrencyAmount
  \/ ConvertResponse

Spec == Init /\ [][Next]_vars

\* population of the table from every generated document
NextLoad ==
  \/ InitLoad
  \/ IsLoaded
  \/ Get

SpecLoad == Init /\ [][NextLoad]_vars

\* the order entry points: start-up, then one tool call
NextTools ==
  \/ InitScaler
  \/ PlaceOrderMcp
  \/ PlaceOrderCli
  \/ TransferFundsMcp
  \/ TransferFundsCli
  \/ GetAccountMcp
  \/ GetAccountCli
  \/ GetPositionsMcp
  \/ GetPositionsCli
  \/ GetFundingRateMcp
  \/ GetFundingRateCli
  \/ SetLeverageMcp
  \/ SetLeverageCli
  \/ SwitchPosModeMcp
  \/ SwitchPosModeCli
  \/ GetTickerMcp
  \/ GetTickerCli
  \/ GetOpenOrdersMcp
  \/ GetOpenOrdersCli
  \/ GetTradesMcp
  \/ GetTradesCli
  \/ CancelOrderMcp
  \/ CancelOrderCli
  \/ AmendOrderMcp
  \/ AmendOrderCli

SpecTools == InitTools /\ [][NextTools]_vars

\* an entry point from start-up on: init, then a tool handler or a call of
\* the cache
NextServer ==
  \/ NextTools
  \/ IsLoaded
  \/ Get
  \/ ScalePrice
  \/ ScaleRatio
  \/ ScaleValue
  \/ UnscalePrice
  \/ ScaleCurrencyAmount
  \/ UnscaleCurrencyAmount
  \/ ConvertResponse

SpecServer == Init /\ [][NextServer]_vars

\* the router: one call of one of its methods
NextRouter ==
  \/ GetEndpoint
  \/ ResolveSymbol
  \/ ValidateSymbol

SpecRouter == Init /\ [][NextRouter]_vars

\* the command line: one flag and its value parsed and read back
NextArgs ==
  \/ RequireString
  \/ OptString

SpecArgs == Init /\ [][NextArgs]_vars

\* ------------------------------------------------------------------------
\* Properties
\* ------------------------------------------------------------------------
HasDot(d) == \E i \in 1..Len(d) : d[i] = "."

\* a decimal string without padded trailing zeros
RECURSIVE CanonicalDecimal(_)
CanonicalDecimal(d) ==
  IF ~HasDot(d) THEN d
  ELSE IF d[Len(d)] = "0" THEN CanonicalDecimal(SubSeq(d, 1, Len(d) - 1))
  ELSE IF d[Len(d)] = "." THEN SubSeq(d, 1, Len(d) - 1)
  ELSE d

\* C1: for a symbol of the table and a decimal string d with no more
\* fractional digits than the symbol's price factor has zeros,
\* unscalePrice(symbol, scalePrice(symbol, d)) is d without padded zeros.
C1_RoundTrip ==
  (/\ call.op = "scalePrice"
   /\ ret.st = "number"
   /\ ~cache[call.key].priceScale.nan
   /\ FracDigits(call.dec) <= Log10(cache[call.key].priceScale.m))
  => unscalePrice(call.key, ret.num).str = CanonicalDecimal(call.dec)

\* C2: scaling what unscaling returned gives the integer back, for prices
\* of every symbol of the table and amounts of every currency of the table.
C2_UnscaleInvertsOnIntegers ==
  /\ (call.op = "unscalePrice" /\ ret.st = "string")
       => scalePrice(call.key, ret.str) = RetNum(Int2Num(call.n))
  /\ (call.op = "unscaleCurrencyAmount" /\ ret.st = "string")
       => scaleCurrencyAmount(call.key, ret.str) = RetNum(Int2Num(call.n))

SymbolOps == {"scalePrice", "scaleRatio", "scaleValue", "unscalePrice"}

CurrencyOps == {"scaleCurrencyAmount", "unscaleCurrencyAmount"}

\* C3: a scale or unscale call for a symbol (currency) that is not in the
\* table throws the 'no info' error and returns no number, whatever the
\* state of the cache.
C3_ScalingFailureIsExplicit ==
  /\ (call.op \in SymbolOps /\ ~MapHas(cache, call.key))
       => (ret.st = "throw" /\ ret.err = NoProductInfo)
  /\ (call.op \in CurrencyOps /\ ~MapHas(currencyScales, call.key))
       => (ret.st = "throw" /\ ret.err = NoCurrencyInfo)

\* a loaded table without the entry, and the call threw
C3_Witness ==
  /\ loaded
  /\ cache # EmptyMap
  /\ call.op = "scaleRatio"
  /\ ~MapHas(cache, call.key)
  /\ ret.st = "throw"

Suffixes == {Ep, Er, Ev}

IsPlain(k) == \A suf \in Suffixes : ~EndsWith(k, suf)

HasSuffixedSibling(es, k) == \E suf \in Suffixes : HasKey(es, k \o suf)

\* the numeric suffixed siblings of the plain key k
NumericSiblings(es, k) ==
  {i \in 1..Len(es) : es[i].v.t = "num" /\ \E suf \in Suffixes : es[i].k = k \o suf}

\* the decimal string a numeric suffixed entry converts to
Converted(info, e) ==
  JStr(NumToString(NumDiv(e.v.num,
         IF EndsWith(e.k, Ep) THEN info.priceScale
         ELSE IF EndsWith(e.k, Er) THEN info.ratioScale
         ELSE info.valueScale)))

\* a plain entry that is kept and whose value is an object or an array
IsKeptContainer(es, i) ==
  /\ IsPlain(es[i].k)
  /\ ~HasSuffixedSibling(es, es[i].k)
  /\ es[i].v.t \in {"obj", "arr"}

RECURSIVE SiblingsDropped(_, _, _)
SiblingsDropped(info, in, out) ==
  IF in.t = "arr" THEN
    /\ out.t = "arr"
    /\ Len(out.items) = Len(in.items)
    /\ \A i \in 1..Len(in.items) : SiblingsDropped(info, in.items[i].v, out.items[i].v)
  ELSE IF in.t = "obj" THEN
    /\ out.t = "obj"
    /\ \A i \in 1..Len(in.items) :
         LET k == in.items[i].k
         IN IF IsPlain(k) /\ HasSuffixedSibling(in.items, k) THEN
              IF NumericSiblings(in.items, k) # {}
              THEN /\ HasKey(out.items, k)
                   /\ ValueOf(out.items, k) \in
                        {Converted(info, in.items[j]) : j \in NumericSiblings(in.items, k)}
              ELSE ~HasKey(out.items, k)
            ELSE IF IsKeptContainer(in.items, i) THEN
              /\ HasKey(out.items, k)
              /\ SiblingsDropped(info, in.items[i].v, ValueOf(out.items, k))
            ELSE TRUE
  ELSE TRUE

\* C4 (as claimed): in the output of convertResponse, for every symbol, a
\* plain field k that has a sibling kEp, kEr or kEv never keeps its own
\* value, and holds a sibling's conversion when a sibling is numeric.
C4_PlainSiblingsDroppedForEverySymbol ==
  call.op = "convertResponse"
  => SiblingsDropped(LookupInfo(call.key).info, call.data, ret.json)

\* C4 (amended): in the output of convertResponse for a symbol of the table, a plain
\* field k that has a sibling kEp, kEr or kEv never keeps its own value:
\* key k holds the conversion of a numeric sibling, or is absent when no
\* sibling is numeric; in every object of the input, whatever the key order.
C4_PlainSiblingsDropped ==
  (call.op = "convertResponse" /\ MapHas(cache, call.key))
  => SiblingsDropped(cache[call.key], call.data, ret.json)

\* the scaled field comes first and the stale plain field after it
C4_Witness ==
  /\ call.op = "convertResponse"
  /\ call.key = BTCUSD
  /\ MapHas(cache, BTCUSD)
  /\ call.data = JObj(<<Entry(priceEp, JNum(Int2Num(500005000))), Entry(price, JStr(<<"x">>))>>)
  /\ ret.json = JObj(<<Entry(price, JStr(<<"5", "0", "0", "0", "0", ".", "5">>))>>)

\* numeric suffixed entry i is the last one of its stripped name
IsLastOfBase(es, i) ==
  \A j \in (i + 1)..Len(es) :
    ~(/\ es[j].v.t = "num"
      /\ ~IsPlain(es[j].k)
      /\ SliceOffEnd(es[j].k, 2) = SliceOffEnd(es[i].k, 2))

RECURSIVE ScaledFieldsConverted(_, _, _, _)
ScaledFieldsConverted(info, in, out, lastOnly) ==
  IF in.t = "arr" THEN
    /\ out.t = "arr"
    /\ Len(out.items) = Len(in.items)
    /\ \A i \in 1..Len(in.items) :
         ScaledFieldsConverted(info, in.items[i].v, out.items[i].v, lastOnly)
  ELSE IF in.t = "obj" THEN
    /\ out.t = "obj"
    /\ \A i \in 1..Len(in.items) :
         LET k == in.items[i].k
         IN IF ~IsPlain(k) /\ in.items[i].v.t = "num" THEN
              /\ (lastOnly => IsLastOfBase(in.items, i))
                   => /\ HasKey(out.items, SliceOffEnd(k, 2))
                      /\ ValueOf(out.items, SliceOffEnd(k, 2)) = Converted(info, in.items[i])
              /\ ~(HasKey(out.items, k) /\ ValueOf(out.items, k).t = "num")
            ELSE IF IsKeptContainer(in.items, i) THEN
              /\ HasKey(out.items, k)
              /\ ScaledFieldsConverted(info, in.items[i].v, ValueOf(out.items, k), lastOnly)
            ELSE TRUE
  ELSE TRUE

\* C5 (as claimed): for a symbol of the table, every numeric field named
\* ...Ep, ...Er or ...Ev of every object at every depth appears in the output
\* under the stripped name as the decimal string of value / priceScale,
\* ratioScale or valueScale, and does not survive under its own name.
C5_EveryScaledFieldConverted ==
  (call.op = "convertResponse" /\ MapHas(cache, call.key))
  => ScaledFieldsConverted(cache[call.key], call.data, ret.json, FALSE)

\* C5 (amended): the same for every numeric suffixed field that is the last
\* one of its stripped name in its object; an earlier one is overwritten.
C5_LastScaledFieldConverted ==
  (call.op = "convertResponse" /\ MapHas(cache, call.key))
  => ScaledFieldsConverted(cache[call.key], call.data, ret.json, TRUE)

\* a ratio field two levels down (object in array in object) was converted
C5_Witness ==
  /\ call.op = "convertResponse"
  /\ call.key = BTCUSD
  /\ MapHas(cache, BTCUSD)
  /\ call.data = JObj(<<Entry(rows, JArr(<<JObj(<<Entry(priceEr, JNum(Int2Num(500005000)))>>),
                                           JObj(<<Entry(priceEr, JNum(Int2Num(500005000)))>>)>>))>>)
  /\ ret.json = JObj(<<Entry(rows, JArr(<<JObj(<<Entry(price, JStr(<<"5", ".", "0", "0", "0", "0", "5">>))>>),
                                          JObj(<<Entry(price, JStr(<<"5", ".", "0", "0", "0", "0", "5">>))>>)>>))>>)

\* C6: convertResponse returns its input unchanged when the symbol has no
\* entry in the table, and returns a scalar, null or undefined input
\* unchanged for every symbol.
C6_NoOpForUnknownSymbol ==
  (/\ call.op = "convertResponse"
   /\ (~MapHas(cache, call.key) \/ call.data.t \notin {"obj", "arr"}))
  => ret.json = call.data

\* a loaded table without the symbol, and an object with a scaled field
C6_Witness ==
  /\ call.op = "convertResponse"
  /\ loaded
  /\ cache # EmptyMap
  /\ ~MapHas(cache, call.key)
  /\ call.data.t = "obj"
  /\ HasKey(call.data.items, priceEp)
  /\ ValueOf(call.data.items, priceEp).t = "num"
  /\ ret.json = call.data

\* C7: after init, a cache that is not loaded has an empty symbol table and
\* an empty currency table.
C7_AllOrNothing ==
  (phase = "ready" /\ ~loaded) => (cache = EmptyMap /\ currencyScales = EmptyMap)

IsPositivePowerOfTen(x) ==
  /\ ~x.nan
  /\ x.e = 0
  /\ x.m >= 1
  /\ x.m = Pow10(Log10(x.m))

\* ten to the reported exponent, 1 when the exponent is absent
FactorOf(exponent) == IF exponent = Absent THEN Int2Num(1) ELSE Int2Num(Pow10(exponent))

\* the entries of the document that init iterates over
ProductsOf(doc) == OrEmpty(doc.products) \o OrEmpty(doc.perpProductsV2)

ListedItems(doc, symbol) ==
  {i \in 1..Len(ProductsOf(doc)) :
     /\ ~ProductsOf(doc)[i].bad
     /\ ProductsOf(doc)[i].symbol = symbol
     /\ ProductsOf(doc)[i].status = "Listed"}

\* C8: every factor stored by init is a positive integer power of ten; the
\* price and ratio factors of an entry are ten to the exponents of a listed
\* product of that symbol, 1 where the exponent is absent; a currency scale
\* is ten to the currency's exponent.
C8_FactorsArePositivePowersOfTen ==
  phase = "ready" =>
    /\ \A symbol \in DOMAIN cache :
         /\ IsPositivePowerOfTen(cache[symbol].priceScale)
         /\ IsPositivePowerOfTen(cache[symbol].ratioScale)
         /\ IsPositivePowerOfTen(cache[symbol].valueScale)
         /\ \E i \in ListedItems(payload, symbol) :
              /\ cache[symbol].priceScale = FactorOf(ProductsOf(payload)[i].priceScale)
              /\ cache[symbol].ratioScale = FactorOf(ProductsOf(payload)[i].ratioScale)
    /\ \A currency \in DOMAIN currencyScales :
         IsPositivePowerOfTen(currencyScales[currency])

\* the factors init derives from a product entry of the document
StoredPrice(p) ==
  IF p.type = "PerpetualV2" THEN LinearScale(p.priceScale) ELSE MathPow10(p.priceScale)

\* C9: a symbol has an entry after init only if the document lists a
\* product of that symbol with status Listed, and the entry carries that
\* listed product's data; get finds nothing else.
C9_OnlyListedRetained ==
  phase = "ready" =>
    /\ \A symbol \in DOMAIN cache :
         \E i \in ListedItems(payload, symbol) :
           cache[symbol].priceScale = StoredPrice(ProductsOf(payload)[i])
    /\ (call.op = "get" /\ ret.json = JBool(TRUE))
         => ListedItems(payload, call.key) # {}

\* the document carries a delisted product and get does not find it
C9_Witness ==
  /\ loaded
  /\ cache # EmptyMap
  /\ call.op = "get"
  /\ ret.json = JBool(FALSE)
  /\ \E i \in 1..Len(ProductsOf(payload)) :
       /\ ~ProductsOf(payload)[i].bad
       /\ ProductsOf(payload)[i].symbol = call.key
       /\ ProductsOf(payload)[i].status = "Delisted"

\* a * b
NumTimes(a, b) == IF a.nan \/ b.nan THEN NaN ELSE Norm(a.m * b.m, a.e + b.e)

\* a > b
NumGt(a, b) == ~a.nan /\ ~b.nan /\ a.m * Pow10(b.e) > b.m * Pow10(a.e)

\* an order whose notional value is its price times its quantity: price and
\* quantity are given as strings, on the linear market or on spot by base
HasNotional(params) ==
  /\ Param(params, price).t = "str"
  /\ Param(params, orderQtyKey).t = "str"
  /\ \/ getContractType(params) = JStr(linear)
     \/ getContractType(params) = JStr(spot) /\ Param(params, qtyTypeKey) # JStr(ByQuote)

Notional(params) ==
  NumTimes(ParseFloat(Param(params, price).str), ParseFloat(Param(params, orderQtyKey).str))

\* C10: with PHEMEX_MAX_ORDER_VALUE set, a place_order call (MCP or CLI)
\* whose price times quantity exceeds the limit ends in an error and no
\* request has been issued.
C10_OrdersAboveLimitRejected ==
  (/\ call.op \in {"mcp.place_order", "cli.place_order"}
   /\ ConfigMaxOrderValue(env).t = "num"
   /\ HasNotional(call.data.items)
   /\ NumGt(Notional(call.data.items), maxOrderValue))
  => (requests = <<>> /\ ret.st = "toolError")

\* ------------------------------------------------------------------------
\* ContractRouter properties
\* ------------------------------------------------------------------------
\* the path just returned is also what another market type gets for `operations`
SharedWithOtherType(operations) ==
  \E contractType \in ContractTypes \ {routed.contractType}, operation \in operations :
    getEndpoint(contractType, operation) = routed.path

\* order entry, position and account operations, as opposed to market data
PrivateOperations ==
  { "placeOrder", "cancelOrder", "amendOrder", "cancelAll", "setLeverage", "switchPosMode",
    "account", "positions", "openOrders", "orderHistory", "tradeHistory" }

\* C11 as stated: a non-empty path returned for one market type is never
\* returned, for any operation, for a different market type.
C11_PathFamiliesDisjoint ==
  (routed.op = "getEndpoint" /\ routed.path # "") => ~SharedWithOtherType(Operations)

\* C11 as the table has it: a non-empty path returned for an order, position
\* or account operation under one market type is never returned, for any
\* operation, for a different market type; market-data paths may be shared.
C11_PrivatePathFamiliesDisjoint ==
  (/\ routed.op = "getEndpoint"
   /\ routed.operation \in PrivateOperations
   /\ routed.path # "")
  => ~SharedWithOtherType(Operations)

\* getEndpoint(linear, placeOrder) has returned its path
C11_Witness ==
  /\ routed.op = "getEndpoint"
  /\ routed.contractType = linear
  /\ routed.operation = "placeOrder"
  /\ routed.path = "/g-orders/create"

\* C12: getEndpoint returns the empty sentinel for spot with setLeverage,
\* switchPosMode and account, and a non-empty path for each of the 16
\* operations under linear and under inverse.
C12_SpotSentinelAndFullDerivativeTables ==
  /\ Cardinality(Operations) = 16
  /\ routed.op = "getEndpoint" =>
       /\ routed.st = "return"
       /\ (routed.contractType = spot
           /\ routed.operation \in {"setLeverage", "switchPosMode", "account"})
          => routed.path = ""
       /\ routed.contractType \in {linear, inverse} => routed.path # ""

\* getEndpoint(spot, setLeverage) has returned the sentinel
C12_Witness ==
  /\ routed.op = "getEndpoint"
  /\ routed.contractType = spot
  /\ routed.operation = "setLeverage"
  /\ routed.path = ""

\* C13: getEndpoint never hands an empty path back to its caller: a pair
\* without a defined endpoint makes it raise an error.
C13_UndefinedEndpointFailsLoudly ==
  routed.op = "getEndpoint" => (routed.st = "throw" \/ routed.path # "")

\* C14: resolveSymbol is idempotent: resolving what it returned, under the
\* same market type, returns it again.
C14_ResolveSymbolIdempotent ==
  routed.op = "resolveSymbol" =>
    resolveSymbol(routed.contractType, routed.resolved) = routed.resolved

\* resolveSymbol(spot, s) has prepended the prefix
C14_Witness ==
  /\ routed.op = "resolveSymbol"
  /\ routed.contractType = spot
  /\ routed.symbol = BTCUSDT
  /\ routed.resolved = sBTCUSDT

\* C15: resolveSymbol(spot, s) is "s" + s when s does not begin with "s" and
\* s itself when it does; under linear and inverse it is s for every s.
C15_ResolveSymbolPrefixesSpotOnly ==
  routed.op = "resolveSymbol" =>
    /\ routed.st = "return"
    /\ routed.resolved =
         IF routed.contractType = spot /\ (routed.symbol = <<>> \/ Head(routed.symbol) # "s")
           THEN <<"s">> \o routed.symbol
         ELSE routed.symbol

\* each of the three cases has happened: prefixed, already prefixed, not spot
C15_Witness ==
  /\ routed.op = "resolveSymbol"
  /\ \/ routed.contractType = spot /\ routed.symbol = <<"S">> \o BTC \o USDT
     \/ routed.contractType = spot /\ routed.symbol = sBTCUSDT
     \/ routed.contractType = inverse /\ routed.symbol = BTCUSD

\* the last k characters of s are x
LastAre(s, x) ==
  /\ Len(s) >= Len(x)
  /\ \A i \in 1..Len(x) : s[Len(s) - Len(x) + i] = x[i]

\* C16: validateSymbol never throws; under inverse it returns the message
\* that points to linear exactly when the symbol ends in USDT; under linear
\* it returns the message that points to inverse exactly when the symbol
\* ends in USD and not in USDT; otherwise, for these two, it returns null.
C16_SuffixPrecedence ==
  routed.op = "validateSymbol" =>
    /\ routed.st = "return"
    /\ routed.contractType = inverse =>
         routed.message =
           IF LastAre(routed.symbol, USDT) THEN InverseLooksUsdtM ELSE NoSymbolError
    /\ routed.contractType = linear =>
         routed.message =
           IF LastAre(routed.symbol, USD) /\ ~LastAre(routed.symbol, USDT)
             THEN LinearLooksCoinM
           ELSE NoSymbolError

\* validateSymbol has rejected a symbol for inverse or for linear
C16_Witness ==
  /\ routed.op = "validateSymbol"
  /\ \/ routed.contractType = inverse /\ routed.symbol = BTCUSDT
        /\ routed.message = InverseLooksUsdtM
     \/ routed.contractType = linear /\ routed.symbol = BTCUSD
        /\ routed.message = LinearLooksCoinM

\* s without its leading "s", if it has one
Unprefixed(s) == IF s # <<>> /\ Head(s) = "s" THEN Tail(s) ELSE s

\* C17: validateSymbol(spot, s) returns the Coin-M message exactly when s
\* without a leading "s" ends in USD and not in USDT, and null otherwise.
C17_SpotValidationStripsPrefix ==
  (routed.op = "validateSymbol" /\ routed.contractType = spot) =>
    /\ routed.st = "return"
    /\ routed.message =
         IF LastAre(Unprefixed(routed.symbol), USD) /\ ~LastAre(Unprefixed(routed.symbol), USDT)
           THEN SpotLooksCoinM
         ELSE NoSymbolError

\* the prefixed USDT symbol has been accepted, or a prefixed USD symbol rejected
C17_Witness ==
  /\ routed.op = "validateSymbol"
  /\ routed.contractType = spot
  /\ \/ routed.symbol = sBTCUSDT /\ routed.message = NoSymbolError
     \/ routed.symbol = <<"s">> \o BTCUSD /\ routed.message = SpotLooksCoinM

\* ------------------------------------------------------------------------
\* Rounding of the scale functions
\* ------------------------------------------------------------------------
ScaleOps == {"scalePrice", "scaleRatio", "scaleValue", "scaleCurrencyAmount"}

\* the factor the last scale call multiplied by
ScaleFactor ==
  IF call.op = "scalePrice" THEN cache[call.key].priceScale
  ELSE IF call.op = "scaleRatio" THEN cache[call.key].ratioScale
  ELSE IF call.op = "scaleValue" THEN cache[call.key].valueScale
  ELSE currencyScales[call.key]

\* the exact product of the last scale call's decimal and its factor
ExactProduct == NumMul(ParseFloat(call.dec), ScaleFactor)

\* nearest integer to m / 10^e, exact halves away from zero
RoundHalfAwayFromZero(x) ==
  LET q == (2 * Abs(x.m) + Pow10(x.e)) \div (2 * Pow10(x.e))
  IN IF x.m < 0 THEN -q ELSE q

\* nearest integer to m / 10^e, exact halves to the even neighbour
RoundHalfToEven(x) ==
  LET q == x.m \div Pow10(x.e)
      r == x.m % Pow10(x.e)
  IN IF 2 * r < Pow10(x.e) THEN q
     ELSE IF 2 * r > Pow10(x.e) THEN q + 1
     ELSE IF q % 2 = 0 THEN q ELSE q + 1

\* C18: a scale function returns the integer nearest to the decimal times
\* the factor, an exact half going the way round-half-away-from-zero or
\* round-half-to-even sends it (a result that neither rule gives cannot come
\* from one of them applied to all inputs), and a product below one half in
\* magnitude gives 0.
C18_NearestIntegerStandardTies ==
  (/\ call.op \in ScaleOps
   /\ ret.st = "number"
   /\ ~ExactProduct.nan)
  => /\ ret.num \in { Int2Num(RoundHalfAwayFromZero(ExactProduct)),
                      Int2Num(RoundHalfToEven(ExactProduct)) }
     /\ 2 * Abs(ExactProduct.m) < Pow10(ExactProduct.e) => ret.num = Int2Num(0)

\* ------------------------------------------------------------------------
\* Command-line properties
\* ------------------------------------------------------------------------
RequiredOfPlaceOrder == {symbolKey, side, orderQtyKey, ordTypeKey}

\* every required parameter of place_order was typed, as a text that stayed
\* a string or as an integer literal that parseCliArgs made a number
AllRequiredTyped(params) ==
  \A key \in RequiredOfPlaceOrder :
    \/ Param(params, key).t = "num"
    \/ Param(params, key).t = "str" /\ Param(params, key).str # <<>>

\* C19: phemex-cli place_order with every required parameter typed, one of
\* them as an integer literal, does not end with "Missing required parameter".
C19_IntegerLiteralAccepted ==
  (/\ call.op = "cli.place_order"
   /\ AllRequiredTyped(call.data.items)
   /\ \E key \in RequiredOfPlaceOrder : Param(call.data.items, key).t = "num")
  => ~(ret.st = "toolError" /\ ret.err = MissingParameter)

HasPointChar(value) == \E i \in 1..Len(value) : value[i] = "."

\* C20: an integer text or a decimal text with a point, typed after a flag,
\* comes back from parseCliArgs and requireString / optString as typed.
C20_TypedTextComesBack ==
  (/\ call.op \in {"requireString", "optString"}
   /\ IsIntegerText(call.dec) \/ HasPointChar(call.dec))
  => (ret.st = "string" /\ ret.str = call.dec)

\* ------------------------------------------------------------------------
\* Relations between router calls and between conversions
\* ------------------------------------------------------------------------
\* C28: for every symbol s, validateSymbol(spot, s) is null if and only if
\* validateSymbol(spot, resolveSymbol(spot, s)) is null.
C28_SpotVerdictSurvivesResolution ==
  (routed.op = "validateSymbol" /\ routed.contractType = spot) =>
    ((routed.message = NoSymbolError)
       <=> (validateSymbol(spot, resolveSymbol(spot, routed.symbol)) = NoSymbolError))

\* an unprefixed symbol, which resolution changes, has been validated for
\* spot: BTCUSDT accepted or BTCUSD flagged
C28_Witness ==
  /\ routed.op = "validateSymbol"
  /\ routed.contractType = spot
  /\ resolveSymbol(spot, routed.symbol) # routed.symbol
  /\ \/ routed.symbol = BTCUSDT /\ routed.message = NoSymbolError
     \/ routed.symbol = BTCUSD /\ routed.message = SpotLooksCoinM

\* the entries of es in the opposite order
Reversed(es) == [i \in 1..Len(es) |-> es[Len(es) + 1 - i]]

\* two objects hold the same key/value pairs, in whatever order
SamePairs(a, b) ==
  /\ a.t = "obj"
  /\ b.t = "obj"
  /\ {a.items[i] : i \in 1..Len(a.items)} = {b.items[i] : i \in 1..Len(b.items)}

\* C29: convertResponse gives equal outputs for two objects that hold the
\* same key/value pairs in different orders, two differently-suffixed fields
\* of one base name included.
C29_KeyOrderIrrelevant ==
  (/\ call.op = "convertResponse"
   /\ call.data.t = "obj")
  => SamePairs(ret.json, convertResponse(call.key, JObj(Reversed(call.data.items))))

\* ------------------------------------------------------------------------
\* Tool properties
\* ------------------------------------------------------------------------
\* the request the last tool call issued, when it issued one
TheRequest == requests[1]

\* C30: transfer_funds, in the MCP tool and in the CLI, sends moveOp 2
\* exactly when the direction is spot_to_futures and moveOp 1 exactly when it
\* is futures_to_spot; for any other direction no transfer request is issued.
C30_MoveOpFollowsDirection ==
  (call.op \in {"mcp.transfer_funds", "cli.transfer_funds"}) =>
    IF requests = <<>> THEN TRUE
    ELSE /\ Param(call.data.items, directionKey) \in {JStr(spot_to_futures), JStr(futures_to_spot)}
         /\ Param(TheRequest.query, moveOpKey) =
              JNum(Int2Num(IF Param(call.data.items, directionKey) = JStr(spot_to_futures)
                           THEN 2 ELSE 1))

\* the tools whose operation has no spot endpoint
WithoutSpotEndpoint ==
  { entry \o tool :
      entry \in {"mcp.", "cli."},
      tool \in {"set_leverage", "switch_pos_mode", "get_account", "get_positions",
                "get_funding_rate"} }

\* C21: no tool handler issues a transport request with the empty path, and
\* set_leverage, switch_pos_mode, get_account, get_positions and
\* get_funding_rate invoked with market type spot return an error before any
\* transport call.
C21_NoRequestWithoutEndpoint ==
  /\ \A i \in 1..Len(requests) : requests[i].path # ""
  /\ (/\ call.op \in WithoutSpotEndpoint
      /\ getContractType(call.data.items) = JStr(spot))
     => (ret.st = "toolError" /\ requests = <<>>)

\* one of the five tools has been invoked for spot and has refused with its
\* own message
C21_Witness ==
  /\ call.op \in WithoutSpotEndpoint
  /\ getContractType(call.data.items) = JStr(spot)
  /\ ret = ToolError(SpotNotSupported)
  /\ requests = <<>>

\* the two entry points of a tool
Entries(tool) == {"mcp." \o tool, "cli." \o tool}

\* the tools that take a market type
MarketTools ==
  UNION { Entries(tool) :
            tool \in {"place_order", "amend_order", "cancel_order", "set_leverage",
                      "switch_pos_mode", "get_account", "get_positions", "get_funding_rate",
                      "get_ticker", "get_open_orders", "get_trades"} }

\* the market type the last tool call ran with
CallType == getContractType(call.data.items)

\* the last call needed the scale table: an order or amendment for inverse
\* or spot, a leverage for inverse, a transfer
NeedsScaling ==
  \/ call.op \in Entries("place_order") \cup Entries("amend_order")
     /\ CallType \in {JStr(inverse), JStr(spot)}
  \/ call.op \in Entries("set_leverage") /\ CallType = JStr(inverse)
  \/ call.op \in Entries("transfer_funds")

\* what a handler reports when it turns its parameters down
ParameterErrors ==
  {MissingParameter, MustBeNumber, InvalidContractType, NoOrderId, LinearLooksCoinM}

\* the text of a parameter as the handlers pass it on
TextOf(v) == IF v.t = "num" THEN JStr(NumToString(v.num)) ELSE v

\* the linear request of the last call carries the caller's values as given
CarriesGivenValues ==
  /\ call.op \in Entries("place_order") =>
       /\ Param(TheRequest.query, orderQtyRqKey) = Param(call.data.items, orderQtyKey)
       /\ Param(TheRequest.query, priceRpKey) = TextOf(Param(call.data.items, price))
  /\ call.op \in Entries("amend_order") =>
       /\ Param(TheRequest.query, orderQtyRqKey) = TextOf(Param(call.data.items, orderQtyKey))
       /\ Param(TheRequest.query, priceRpKey) = TextOf(Param(call.data.items, price))
  /\ call.op \in Entries("set_leverage") =>
       Param(TheRequest.query, leverageRrKey).num
         = optNumber(call.data.items, leverageKey, JUndef).value.num

\* C22: with the cache not loaded, place_order and amend_order for inverse
\* or spot, set_leverage for inverse, and transfer_funds return an error
\* without issuing a request, while a linear operation whose parameters the
\* handler accepts still issues its request, with the caller's values unscaled.
C22_DegradesGracefully ==
  ~loaded =>
    /\ NeedsScaling => (ret.st = "toolError" /\ requests = <<>>)
    /\ (call.op \in MarketTools /\ CallType = JStr(linear)) =>
         IF requests = <<>> THEN ret.st = "toolError" /\ ret.err \in ParameterErrors
         ELSE Len(requests) = 1 /\ CarriesGivenValues

\* with the cache not loaded an amendment for spot has been refused for that
\* reason, nothing having been sent
C22_Witness ==
  /\ ~loaded
  /\ call.op \in Entries("amend_order")
  /\ CallType = JStr(spot)
  /\ ret = ToolError(NotLoadedAmend)
  /\ requests = <<>>

\* C23: in both entry points init has completed, successfully or not, before
\* any tool handler or scaler operation runs, and from then on no step
\* changes the symbol table, the currency table or the loaded flag.
C23_InitOnceThenReadOnly ==
  [][/\ call' # call => phase = "ready"
     /\ phase = "ready" => UNCHANGED <<cache, currencyScales, loaded>>]_vars

\* a tool handler has run against a table that init had filled
C23_Witness ==
  /\ phase = "ready"
  /\ loaded
  /\ cache # EmptyMap
  /\ call.op \in Entries("amend_order")
  /\ requests # <<>>

\* every tool call
ToolCalls == MarketTools \cup Entries("transfer_funds")

\* the exchange turned the request down: code != 0, or a non-null error of
\* the market-data API
IsFailure(res) == res.code # 0 \/ res.error # ""

\* C24 (as claimed): whenever the exchange's answer to a tool's request is a
\* failure, the tool reports an error and issues no further request.
C24_FailureReportedNotRetried ==
  (call.op \in ToolCalls /\ responses # <<>> /\ IsFailure(responses[1]))
  => (ret.st = "toolError" /\ Len(requests) = 1)

\* the answer by which the Coin-M API says that there are no open orders
IsNoOpenOrders ==
  /\ call.op \in Entries("get_open_orders")
  /\ responses[1].msg = OM_ORDER_NOT_FOUND

\* C24 (amended): a failure is reported as an error and never retried,
\* except that get_open_orders reports the answer OM_ORDER_NOT_FOUND as a
\* success with no orders; there too no further request is issued.
C24_FailureReportedExceptNoOrders ==
  (call.op \in ToolCalls /\ responses # <<>> /\ IsFailure(responses[1]))
  => /\ Len(requests) = 1
     /\ Len(responses) = 1
     /\ IF IsNoOpenOrders
          THEN ret.st = "toolOk"
               /\ ret.json \in {JStr(NoOpenOrders),
                                JObj(<<Entry(messageKey, JStr(NoOpenOrders)),
                                       Entry(ordersKey, JArr(<<>>))>>)}
        ELSE ret.st = "toolError"

\* get_open_orders has been answered OM_ORDER_NOT_FOUND with a non-zero code
\* and has reported no open orders, having sent its one request
C24_Witness ==
  /\ call.op \in Entries("get_open_orders")
  /\ Len(responses) = 1
  /\ responses[1].code # 0
  /\ responses[1].msg = OM_ORDER_NOT_FOUND
  /\ ret.st = "toolOk"
  /\ Len(requests) = 1

\* the symbol the last tool call was given
CallSymbol == Param(call.data.items, symbolKey).str

\* the last tool call was given a market type and a symbol that
\* validateSymbol flags as belonging to another market type
SymbolFlagged ==
  /\ call.op \in MarketTools
  /\ CallType.t = "str"
  /\ CallType.str \in ContractTypes
  /\ Param(call.data.items, symbolKey).t = "str"
  /\ validateSymbol(CallType.str, CallSymbol) # NoSymbolError

\* C25: symbol validation is advisory only: a tool call with a symbol that
\* validateSymbol flags does not end, for that reason alone, with the
\* warning as its error and no request issued.
C25_ValidationNeverPreventsRequest ==
  SymbolFlagged =>
    ~(/\ requests = <<>>
      /\ ret = ToolError(validateSymbol(CallType.str, CallSymbol)))

OrderTools == Entries("place_order") \cup Entries("amend_order")

Rp == <<"R", "p">>
Rq == <<"R", "q">>

\* some field of the query has a name that ends in suffix
HasSuffixed(query, suffix) == \E i \in 1..Len(query) : EndsWith(query[i].k, suffix)

IsIntegerValue(v) == v.t = "num" /\ ~v.num.nan /\ IsInteger(v.num)

\* every Ep and Ev field of the query, and orderQty if it is there, holds an
\* integer
FixedPointFieldsAreIntegers(query) ==
  /\ \A i \in 1..Len(query) :
       (EndsWith(query[i].k, Ep) \/ EndsWith(query[i].k, Ev)) => IsIntegerValue(query[i].v)
  /\ HasKey(query, orderQtyKey) => IsIntegerValue(ValueOf(query, orderQtyKey))

\* C26: in place_order and amend_order the request for linear carries the
\* caller's price and quantity strings unmodified in Rp/Rq fields and no
\* Ep/Ev field; for inverse and spot it carries only integer fixed-point
\* Ep/Ev fields (plus an integer orderQty for inverse) and no Rp/Rq field;
\* and only for inverse and spot is the response passed through convertResponse.
C26_RepresentationFollowsMarketType ==
  (call.op \in OrderTools /\ requests # <<>>) =>
    IF CallType = JStr(linear)
      THEN /\ ~HasSuffixed(TheRequest.query, Ep)
           /\ ~HasSuffixed(TheRequest.query, Ev)
           /\ CarriesGivenValues
           /\ ret.st = "toolOk" => ret.json = responses[1].data
    ELSE /\ ~HasSuffixed(TheRequest.query, Rp)
         /\ ~HasSuffixed(TheRequest.query, Rq)
         /\ FixedPointFieldsAreIntegers(TheRequest.query)
         /\ ret.st = "toolOk" =>
              ret.json = convertResponse(resolveSymbol(CallType.str, CallSymbol),
                                         responses[1].data)

\* the tools that send a symbol for spot
SpotSymbolTools ==
  UNION { Entries(tool) :
            tool \in {"place_order", "amend_order", "cancel_order", "get_ticker",
                      "get_open_orders", "get_trades"} }

\* the resolved symbol of the last tool call
CallResolved == resolveSymbol(CallType.str, CallSymbol)

\* the scaled fields of the last spot request came from lookups under key
ScaledUnder(key) ==
  /\ call.op \in Entries("place_order") =>
       /\ HasKey(TheRequest.query, priceEp) =>
            Param(TheRequest.query, priceEp).num
              = scalePrice(key, TextOf(Param(call.data.items, price)).str).num
       /\ HasKey(TheRequest.query, baseQtyEvKey) =>
            Param(TheRequest.query, baseQtyEvKey).num
              = scaleValue(key, Param(call.data.items, orderQtyKey).str).num
       /\ HasKey(TheRequest.query, quoteQtyEvKey) =>
            Param(TheRequest.query, quoteQtyEvKey).num
              = scaleValue(key, Param(call.data.items, orderQtyKey).str).num
  /\ call.op \in Entries("amend_order") =>
       /\ HasKey(TheRequest.query, priceEp) =>
            Param(TheRequest.query, priceEp).num
              = scalePrice(key, TextOf(Param(call.data.items, price)).str).num
       /\ HasKey(TheRequest.query, baseQtyEvKey) =>
            Param(TheRequest.query, baseQtyEvKey).num
              = scaleValue(key, TextOf(Param(call.data.items, orderQtyKey)).str).num

\* the answer of the last spot call was converted under key, where the tool
\* converts at all
ConvertedUnder(key) ==
  (ret.st = "toolOk" /\ call.op \notin Entries("get_ticker") /\ responses[1].code = 0)
    => ret.json = convertResponse(key, responses[1].data)

\* C27: in every spot tool invocation that sends a symbol, the symbol on the
\* wire is the resolved symbol, which starts with "s", and that resolved
\* symbol is the key of every scale lookup and of the response conversion.
C27_SpotUsesResolvedSymbol ==
  (call.op \in SpotSymbolTools /\ CallType = JStr(spot) /\ requests # <<>>) =>
    /\ Param(TheRequest.query, symbolKey) = JStr(CallResolved)
    /\ StartsWith(CallResolved, <<"s">>)
    /\ ScaledUnder(CallResolved)
    /\ ConvertedUnder(CallResolved)

\* a spot amendment of the price, typed without the prefix, has gone out
\* under the prefixed symbol with the price scaled, and its answer has come back
C27_Witness ==
  /\ call.op \in Entries("amend_order")
  /\ CallType = JStr(spot)
  /\ CallSymbol = BTCUSDT
  /\ requests # <<>>
  /\ Param(TheRequest.query, symbolKey) = JStr(sBTCUSDT)
  /\ HasKey(TheRequest.query, priceEp)
  /\ ret.st = "toolOk"

====
